---- MODULE Spec2Model ----
(***************************************************************************)
(* A model of JellyfinDownloader (package src/jellydown and the one-file   *)
(* script src/jellydown.py, which holds the same functions).               *)
(*                                                                         *)
(* The module holds several specifications over one set of variables:      *)
(*   SpecStrategy  should_skip_transcode applied to bounded inputs         *)
(*   SpecPick      one call of pick                                        *)
(*   SpecList      one call of list_library_items (with fairness)          *)
(*   Spec          the interactive program: main menu, series and movie    *)
(*                 browsing, the settings editor and the download flow     *)
(* A specification leaves the variables of the others unchanged.           *)
(***************************************************************************)
EXTENDS Integers, Sequences, FiniteSets, TLC

(***************************************************************************)
(* Python values.  A JSON value is a record tagged by its type, so that    *)
(* dict.get, truthiness and isinstance can be written as the code has them.*)
(* Integers are unbounded in Python; they are kept as sequences of limbs   *)
(* (least significant first, no leading zero limb) because runtimes in     *)
(* ticks and the products of the size estimate exceed 2^31.                *)
(***************************************************************************)
Radix == 2^15

RECURSIVE Norm(_)
Norm(a) ==
  IF a = <<>> THEN <<>>
  ELSE IF a[Len(a)] = 0 THEN Norm(SubSeq(a, 1, Len(a) - 1))
  ELSE a

RECURSIVE FromInt(_)
FromInt(n) ==
  IF n = 0 THEN <<>> ELSE <<n % Radix>> \o FromInt(n \div Radix)

RECURSIVE AddC(_, _, _)
AddC(a, b, c) ==
  IF a = <<>> /\ b = <<>> THEN (IF c = 0 THEN <<>> ELSE <<c>>)
  ELSE LET x == IF a = <<>> THEN 0 ELSE Head(a)
           y == IF b = <<>> THEN 0 ELSE Head(b)
           s == x + y + c
       IN  <<s % Radix>> \o AddC(IF a = <<>> THEN <<>> ELSE Tail(a),
                                  IF b = <<>> THEN <<>> ELSE Tail(b),
                                  s \div Radix)

Add(a, b) == AddC(a, b, 0)

\* a - b for a >= b
RECURSIVE SubB(_, _, _)
SubB(a, b, br) ==
  IF a = <<>> THEN <<>>
  ELSE LET y == IF b = <<>> THEN 0 ELSE Head(b)
           d == Head(a) - y - br
       IN  <<IF d < 0 THEN d + Radix ELSE d>>
             \o SubB(Tail(a), IF b = <<>> THEN <<>> ELSE Tail(b),
                     IF d < 0 THEN 1 ELSE 0)

Sub(a, b) == Norm(SubB(a, b, 0))

RECURSIVE MulSmall(_, _, _)
MulSmall(a, d, c) ==
  IF a = <<>> THEN (IF c = 0 THEN <<>> ELSE <<c>>)
  ELSE LET p == Head(a) * d + c
       IN  <<p % Radix>> \o MulSmall(Tail(a), d, p \div Radix)

RECURSIVE Mul(_, _)
Mul(a, b) ==
  IF a = <<>> \/ b = <<>> THEN <<>>
  ELSE Norm(Add(MulSmall(a, Head(b), 0), <<0>> \o Mul(a, Tail(b))))

\* -1, 0, 1 as a < b, a = b, a > b
RECURSIVE CmpFrom(_, _, _)
CmpFrom(a, b, i) ==
  IF i = 0 THEN 0
  ELSE IF a[i] < b[i] THEN -1
  ELSE IF a[i] > b[i] THEN 1
  ELSE CmpFrom(a, b, i - 1)

Cmp(a, b) ==
  IF Len(a) < Len(b) THEN -1
  ELSE IF Len(a) > Len(b) THEN 1
  ELSE CmpFrom(a, b, Len(a))

RECURSIVE Zeros(_)
Zeros(n) == IF n = 0 THEN <<>> ELSE <<0>> \o Zeros(n - 1)

\* a * 2^k
Shl(a, k) ==
  IF a = <<>> THEN <<>>
  ELSE Zeros(k \div 15) \o MulSmall(a, 2^(k % 15), 0)

RECURSIVE LimbBits(_)
LimbBits(x) == IF x = 0 THEN 0 ELSE 1 + LimbBits(x \div 2)

BitLen(a) ==
  IF a = <<>> THEN 0 ELSE 15 * (Len(a) - 1) + LimbBits(a[Len(a)])

\* bit i (0 = least significant) of a
Bit(a, i) ==
  IF (i \div 15) + 1 > Len(a) THEN 0
  ELSE (a[(i \div 15) + 1] \div 2^(i % 15)) % 2

\* floor(a / d) for a small divisor 1 <= d <= Radix, limb by limb from the top;
\* ShortDivFrom returns <<quotient limbs (most significant last), remainder>>
RECURSIVE ShortDivFrom(_, _, _, _)
ShortDivFrom(a, d, i, r) ==
  IF i = 0 THEN <<>>
  ELSE LET cur == r * Radix + a[i]
       IN  ShortDivFrom(a, d, i - 1, cur % d) \o <<cur \div d>>

ShortDiv(a, d) == Norm(ShortDivFrom(a, d, Len(a), 0))

\* floor(a / (fs[1] * ... * fs[n])), each factor at most Radix:
\* floor(floor(a / x) / y) = floor(a / (x * y))
RECURSIVE DivFactors(_, _)
DivFactors(a, fs) ==
  IF fs = <<>> THEN a ELSE DivFactors(ShortDiv(a, Head(fs)), Tail(fs))

RECURSIVE Prod(_)
Prod(fs) == IF fs = <<>> THEN <<1>> ELSE MulSmall(Prod(Tail(fs)), Head(fs), 0)

\* floor(a / 2^k)
Shr(a, k) ==
  IF k \div 15 >= Len(a) THEN <<>>
  ELSE ShortDiv(SubSeq(a, (k \div 15) + 1, Len(a)), 2^(k % 15))

(***************************************************************************)
(* Python floats (IEEE-754 binary64, round to nearest, ties to even).      *)
(* A float is [neg, m, e] with value (-1)^neg * m * 2^e and m either 0 or  *)
(* a 53-bit integer.  The exponent range is not modelled: every value the  *)
(* model computes lies between 2^-60 and 2^200.                            *)
(***************************************************************************)
Two52 == Shl(<<1>>, 52)
Two53 == Shl(<<1>>, 53)

\* numerator and denominator of (a / b) / 2^sh as integers
ScaledNum(a, sh) == IF sh >= 0 THEN a ELSE Shl(a, 0 - sh)
ScaledDen(b, sh) == IF sh >= 0 THEN Shl(b, sh) ELSE b

\* floor((a / Prod(bf)) / 2^sh)
ScaledQuot(a, bf, sh) ==
  IF sh >= 0 THEN DivFactors(Shr(a, sh), bf)
  ELSE DivFactors(Shl(a, 0 - sh), bf)

\* quotient q with remainder r of denominator d, rounded to nearest, ties to even
RoundHalfEven(q, r, d) ==
  LET c == Cmp(Add(r, r), d)
  IN  IF c > 0 \/ (c = 0 /\ Bit(q, 0) = 1) THEN Norm(AddC(q, <<>>, 1)) ELSE q

RoundAt(a, bf, sh) ==
  LET q == ScaledQuot(a, bf, sh)
      d == ScaledDen(Prod(bf), sh)
      r == Sub(ScaledNum(a, sh), Mul(q, d))
  IN  RoundHalfEven(q, r, d)

\* the float nearest to (a / Prod(bf)) * 2^e0, for an integer a >= 0 and a
\* divisor given by its factors bf (each at most Radix)
RoundRat(neg, a, bf, e0) ==
  IF a = <<>> THEN [neg |-> neg, m |-> <<>>, e |-> 0]
  ELSE LET s0 == BitLen(a) - BitLen(Prod(bf)) - 53
           q0 == ScaledQuot(a, bf, s0)
           sh == IF Cmp(q0, Two53) >= 0 THEN s0 + 1 ELSE s0
           m  == RoundAt(a, bf, sh)
       IN  IF m = Two53 THEN [neg |-> neg, m |-> Two52, e |-> sh + 1 + e0]
           ELSE [neg |-> neg, m |-> m, e |-> sh + e0]

Abs(n) == IF n < 0 THEN 0 - n ELSE n

\* int / int (true division, correctly rounded): n a machine-size integer, the
\* divisor given by its factors
IntTrueDiv(n, df) == RoundRat(n < 0, FromInt(Abs(n)), df, 0)

\* int / int for a dividend of any size
BigTrueDiv(a, df) == RoundRat(FALSE, a, df, 0)

\* float * float
FMul(x, y) == RoundRat(x.neg # y.neg, Mul(x.m, y.m), <<>>, x.e + y.e)

\* the literal 1.05
F105 == RoundRat(FALSE, FromInt(105), <<100>>, 0)

\* int <= float, compared exactly as Python compares an int with a float
IntLeqFloat(a, x) ==
  IF x.m = <<>> THEN a = <<>>
  ELSE IF x.neg THEN FALSE
  ELSE IF x.e >= 0 THEN Cmp(a, Shl(x.m, x.e)) <= 0
  ELSE Cmp(Shl(a, 0 - x.e), x.m) <= 0

(***************************************************************************)
(* JSON values as the program reads them from the server and the config.   *)
(***************************************************************************)
JNull == [t |-> "null"]
JAbsent == [t |-> "absent"]
JInt(b) == [t |-> "int", v |-> b]
JStr(s) == [t |-> "str", v |-> s]
JList(q) == [t |-> "list", v |-> q]
JObj(f) == [t |-> "obj", v |-> f]

\* dict.get(key): None for a missing key
Get(obj, k) == IF k \in DOMAIN obj.v THEN obj.v[k] ELSE JNull

\* Python truthiness
Truthy(x) ==
  CASE x.t = "null" -> FALSE
    [] x.t = "int"  -> x.v # <<>>
    [] x.t = "str"  -> x.v # ""
    [] x.t = "list" -> Len(x.v) > 0
    [] x.t = "obj"  -> DOMAIN x.v # {}

\* x or []
OrEmptyList(x) == IF Truthy(x) THEN x ELSE JList(<<>>)

\* 10_000_000 ticks per second, as factors for the division
TicksPerSecond == <<10000, 1000>>

(***************************************************************************)
(* should_skip_transcode(item, bitrate): "Direct" for True, "Transcode"    *)
(* for False, "raise" where the code raises (a media source or a runtime   *)
(* of a type without the method or operator used).                         *)
(***************************************************************************)
should_skip_transcode_size_first(item, bitrate) ==
  LET duration_ticks == Get(item, "RunTimeTicks")
      ms == OrEmptyList(Get(item, "MediaSources"))
  IN  IF ~Truthy(duration_ticks) \/ ~Truthy(ms) \/ ms.t # "list"
         \/ ~Truthy(ms.v[1])
      THEN "Transcode"
      ELSE IF bitrate = 0 THEN "Direct" ELSE "Transcode"

should_skip_transcode_no_tolerance(item, bitrate) ==
  IF bitrate = 0 THEN "Direct"
  ELSE
  LET duration_ticks == Get(item, "RunTimeTicks")
      ms == OrEmptyList(Get(item, "MediaSources"))
  IN  IF ~Truthy(duration_ticks) \/ ~Truthy(ms) \/ ms.t # "list"
         \/ ~Truthy(ms.v[1])
      THEN "Transcode"
      ELSE IF ms.v[1].t # "obj" THEN "raise"
      ELSE
      LET original_size == Get(ms.v[1], "Size")
      IN  IF ~Truthy(original_size) THEN "Transcode"
          ELSE IF duration_ticks.t # "int" \/ original_size.t # "int"
          THEN "raise"
          ELSE
          LET duration_seconds == BigTrueDiv(duration_ticks.v, TicksPerSecond)
              bitrate_bytes_per_sec == IntTrueDiv(bitrate, <<8>>)
              expected_size == FMul(bitrate_bytes_per_sec, duration_seconds)
          IN  IF IntLeqFloat(original_size.v, expected_size)
              THEN "Direct" ELSE "Transcode"

should_skip_transcode_ignores_missing(item, bitrate) ==
  IF bitrate = 0 THEN "Direct"
  ELSE
  LET duration_ticks == Get(item, "RunTimeTicks")
      ms == OrEmptyList(Get(item, "MediaSources"))
  IN  IF ~Truthy(duration_ticks) THEN "Direct"
      ELSE IF ~Truthy(ms) \/ ms.t # "list" \/ ~Truthy(ms.v[1])
      THEN "Transcode"
      ELSE "Transcode"

should_skip_transcode(item, bitrate) ==
  IF bitrate = 0 THEN "Direct"
  ELSE
  LET duration_ticks == Get(item, "RunTimeTicks")
      ms == OrEmptyList(Get(item, "MediaSources"))
  IN  IF ~Truthy(duration_ticks) \/ ~Truthy(ms) \/ ms.t # "list"
         \/ ~Truthy(ms.v[1])
      THEN "Transcode"
      ELSE IF ms.v[1].t # "obj" THEN "raise"
      ELSE
      LET original_size == Get(ms.v[1], "Size")
      IN  IF ~Truthy(original_size) THEN "Transcode"
          ELSE IF duration_ticks.t # "int" \/ original_size.t # "int"
          THEN "raise"
          ELSE
          LET duration_seconds == BigTrueDiv(duration_ticks.v, TicksPerSecond)
              bitrate_bytes_per_sec == IntTrueDiv(bitrate, <<8>>)
              expected_size == FMul(bitrate_bytes_per_sec, duration_seconds)
          IN  IF IntLeqFloat(original_size.v, FMul(expected_size, F105))
              THEN "Direct" ELSE "Transcode"

(***************************************************************************)
(* Console input.  A line is the sequence of its characters, so that       *)
(* strip(), lower(), isdigit() and int() act on text as in the code.       *)
(***************************************************************************)
DigitChars == {"0", "1", "2", "3", "4", "5", "6", "7", "8", "9"}

DigitVal(c) ==
  CASE c = "0" -> 0 [] c = "1" -> 1 [] c = "2" -> 2 [] c = "3" -> 3
    [] c = "4" -> 4 [] c = "5" -> 5 [] c = "6" -> 6 [] c = "7" -> 7
    [] c = "8" -> 8 [] c = "9" -> 9

\* str.strip(): leading and trailing blanks removed
RECURSIVE Strip(_)
Strip(line) ==
  IF line = <<>> THEN <<>>
  ELSE IF Head(line) = " " THEN Strip(Tail(line))
  ELSE IF line[Len(line)] = " " THEN Strip(SubSeq(line, 1, Len(line) - 1))
  ELSE line

LowerChar(c) ==
  CASE c = "Q" -> "q" [] c = "B" -> "b" [] c = "N" -> "n" [] c = "P" -> "p"
    [] c = "Y" -> "y" [] OTHER -> c

\* str.lower()
Lower(line) == [n \in 1..Len(line) |-> LowerChar(line[n])]

\* characters str.isdigit() accepts that are no decimal digits: "SUP2" names
\* the superscript two
OtherDigitChars == {"SUP2"}

\* str.isdigit(): at least one character and all of them digits
IsDigit(line) ==
  line # <<>> /\ \A n \in 1..Len(line) : line[n] \in DigitChars \cup OtherDigitChars

\* int(str) raises ValueError on a character that is no decimal digit
IntRaises(line) == \E n \in 1..Len(line) : line[n] \notin DigitChars

\* int(str) of a string of digits
RECURSIVE ParseInt(_)
ParseInt(line) ==
  IF line = <<>> THEN 0
  ELSE ParseInt(SubSeq(line, 1, Len(line) - 1)) * 10 + DigitVal(line[Len(line)])

(***************************************************************************)
(* pick(options, title, page_size=25): one pass of its loop on one line    *)
(* of input.  kind is "exit" (sys.exit(0)), "BACK", "value" (an option's   *)
(* value is returned), "page" (n or p: the loop continues), "invalid"      *)
(* ("Invalid input." and the loop continues) or "raise" (int(cmd) raises   *)
(* ValueError, which pick does not catch).                                 *)
(***************************************************************************)
page_size == 25

\* math.ceil(len(options) / page_size)
PagesOf(options) == (Len(options) + page_size - 1) \div page_size

NoValue == [none |-> TRUE]

pick_step_off_by_one(options, pg, raw) ==
  LET cmd == Lower(Strip(raw))
      pages == PagesOf(options)
  IN  IF cmd = <<"q">> THEN [kind |-> "exit", page |-> pg, value |-> NoValue]
      ELSE IF cmd = <<"b">> THEN [kind |-> "BACK", page |-> pg, value |-> NoValue]
      ELSE IF cmd = <<"n">>
      THEN [kind |-> "page", page |-> IF pg + 1 < pages THEN pg + 1 ELSE pg,
            value |-> NoValue]
      ELSE IF cmd = <<"p">>
      THEN [kind |-> "page", page |-> IF pg > 0 THEN pg - 1 ELSE pg,
            value |-> NoValue]
      ELSE IF IsDigit(cmd) /\ IntRaises(cmd)
      THEN [kind |-> "raise", page |-> pg, value |-> NoValue]
      ELSE IF IsDigit(cmd) /\ 0 <= ParseInt(cmd) /\ ParseInt(cmd) < Len(options)
      THEN [kind |-> "value", page |-> pg,
            value |-> options[ParseInt(cmd) + 1].value]
      ELSE [kind |-> "invalid", page |-> pg, value |-> NoValue]

pick_step_unclamped(options, pg, raw) ==
  LET cmd == Lower(Strip(raw))
      pages == PagesOf(options)
  IN  IF cmd = <<"q">> THEN [kind |-> "exit", page |-> pg, value |-> NoValue]
      ELSE IF cmd = <<"b">> THEN [kind |-> "BACK", page |-> pg, value |-> NoValue]
      ELSE IF cmd = <<"n">>
      THEN [kind |-> "page", page |-> pg + 1, value |-> NoValue]
      ELSE IF cmd = <<"p">>
      THEN [kind |-> "page", page |-> IF pg > 0 THEN pg - 1 ELSE pages - 1,
            value |-> NoValue]
      ELSE IF IsDigit(cmd) /\ IntRaises(cmd)
      THEN [kind |-> "raise", page |-> pg, value |-> NoValue]
      ELSE IF IsDigit(cmd) /\ 0 <= ParseInt(cmd) - 1
              /\ ParseInt(cmd) - 1 < Len(options)
      THEN [kind |-> "value", page |-> pg,
            value |-> options[(ParseInt(cmd) - 1) + 1].value]
      ELSE [kind |-> "invalid", page |-> pg, value |-> NoValue]

\* a pick whose q leaves only the picker, as b does
pick_step_quit_is_back(options, pg, raw) ==
  LET cmd == Lower(Strip(raw))
      pages == PagesOf(options)
  IN  IF cmd = <<"q">> \/ cmd = <<"b">>
      THEN [kind |-> "BACK", page |-> pg, value |-> NoValue]
      ELSE IF cmd = <<"n">>
      THEN [kind |-> "page", page |-> IF pg + 1 < pages THEN pg + 1 ELSE pg,
            value |-> NoValue]
      ELSE IF cmd = <<"p">>
      THEN [kind |-> "page", page |-> IF pg > 0 THEN pg - 1 ELSE pg,
            value |-> NoValue]
      ELSE IF IsDigit(cmd) /\ IntRaises(cmd)
      THEN [kind |-> "raise", page |-> pg, value |-> NoValue]
      ELSE IF IsDigit(cmd) /\ 0 <= ParseInt(cmd) - 1
              /\ ParseInt(cmd) - 1 < Len(options)
      THEN [kind |-> "value", page |-> pg,
            value |-> options[(ParseInt(cmd) - 1) + 1].value]
      ELSE [kind |-> "invalid", page |-> pg, value |-> NoValue]

pick_step(options, pg, raw) ==
  LET cmd == Lower(Strip(raw))
      pages == PagesOf(options)
  IN  IF cmd = <<"q">> THEN [kind |-> "exit", page |-> pg, value |-> NoValue]
      ELSE IF cmd = <<"b">> THEN [kind |-> "BACK", page |-> pg, value |-> NoValue]
      ELSE IF cmd = <<"n">>
      THEN [kind |-> "page", page |-> IF pg + 1 < pages THEN pg + 1 ELSE pg,
            value |-> NoValue]
      ELSE IF cmd = <<"p">>
      THEN [kind |-> "page", page |-> IF pg > 0 THEN pg - 1 ELSE pg,
            value |-> NoValue]
      ELSE IF IsDigit(cmd) /\ IntRaises(cmd)
      THEN [kind |-> "raise", page |-> pg, value |-> NoValue]
      ELSE IF IsDigit(cmd) /\ 0 <= ParseInt(cmd) - 1
              /\ ParseInt(cmd) - 1 < Len(options)
      THEN [kind |-> "value", page |-> pg,
            value |-> options[(ParseInt(cmd) - 1) + 1].value]
      ELSE [kind |-> "invalid", page |-> pg, value |-> NoValue]

\* what one page shows: items start+1 .. end (1-based, as printed)
ShownFirst(pg) == pg * page_size + 1

ShownLast(options, pg) ==
  IF Len(options) < pg * page_size + page_size
  THEN Len(options) ELSE pg * page_size + page_size

(***************************************************************************)
(* utils.py: sanitize_filename.  A character is a one-character string or, *)
(* where TLA+ has no notation for it, its name: "NUL" ... "US" for \x00 to  *)
(* \x1f, "DEL" for \x7f, "NEL" for \x85, "NBSP" for \xa0 and "U+..." for   *)
(* the other whitespace of Unicode.                                        *)
(***************************************************************************)
\* a sanitize_filename without its last line
sanitize_filename_no_rstrip(name) ==
  LET c0 == {"NUL", "SOH", "STX", "ETX", "EOT", "ENQ", "ACK", "BEL", "BS", "\t",
             "\n", "VT", "\f", "\r", "SO", "SI", "DLE", "DC1", "DC2", "DC3", "DC4",
             "NAK", "SYN", "ETB", "CAN", "EM", "SUB", "ESC", "FS", "GS", "RS", "US"}
      invalid == {"<", ">", ":", "\"", "/", "\\", "|", "?", "*"} \cup c0
      space == {"\t", "\n", "VT", "\f", "\r", "FS", "GS", "RS", "US", " ", "NEL",
                "NBSP", "U+1680", "U+2000", "U+2001", "U+2002", "U+2003", "U+2004",
                "U+2005", "U+2006", "U+2007", "U+2008", "U+2009", "U+200A",
                "U+2028", "U+2029", "U+202F", "U+205F", "U+3000"}
      kept == SelectSeq(name, LAMBDA c : c \notin invalid)
      RECURSIVE collapse(_)
      collapse(q) ==
        IF q = <<>> THEN <<>>
        ELSE IF Head(q) \notin space THEN <<Head(q)>> \o collapse(Tail(q))
        ELSE IF Len(q) > 1 /\ q[2] \in space THEN collapse(Tail(q))
        ELSE <<" ">> \o collapse(Tail(q))
      RECURSIVE strip(_)
      strip(q) ==
        IF q = <<>> THEN <<>>
        ELSE IF Head(q) \in space THEN strip(Tail(q))
        ELSE IF q[Len(q)] \in space THEN strip(SubSeq(q, 1, Len(q) - 1))
        ELSE q
  IN  strip(collapse(kept))

sanitize_filename(name) ==
  LET \* \x00-\x1f
      c0 == {"NUL", "SOH", "STX", "ETX", "EOT", "ENQ", "ACK", "BEL", "BS", "\t",
             "\n", "VT", "\f", "\r", "SO", "SI", "DLE", "DC1", "DC2", "DC3", "DC4",
             "NAK", "SYN", "ETB", "CAN", "EM", "SUB", "ESC", "FS", "GS", "RS", "US"}
      \* [<>:"/\\|?*\x00-\x1f]
      invalid == {"<", ">", ":", "\"", "/", "\\", "|", "?", "*"} \cup c0
      \* \s of a str pattern and the characters strip() removes: str.isspace
      space == {"\t", "\n", "VT", "\f", "\r", "FS", "GS", "RS", "US", " ", "NEL",
                "NBSP", "U+1680", "U+2000", "U+2001", "U+2002", "U+2003", "U+2004",
                "U+2005", "U+2006", "U+2007", "U+2008", "U+2009", "U+200A",
                "U+2028", "U+2029", "U+202F", "U+205F", "U+3000"}
      \* s = re.sub(r'[<>:"/\\|?*\x00-\x1f]', "", s)
      kept == SelectSeq(name, LAMBDA c : c \notin invalid)
      \* re.sub(r"\s+", " ", s): every run of whitespace becomes one blank
      RECURSIVE collapse(_)
      collapse(q) ==
        IF q = <<>> THEN <<>>
        ELSE IF Head(q) \notin space THEN <<Head(q)>> \o collapse(Tail(q))
        ELSE IF Len(q) > 1 /\ q[2] \in space THEN collapse(Tail(q))
        ELSE <<" ">> \o collapse(Tail(q))
      \* .strip()
      RECURSIVE strip(_)
      strip(q) ==
        IF q = <<>> THEN <<>>
        ELSE IF Head(q) \in space THEN strip(Tail(q))
        ELSE IF q[Len(q)] \in space THEN strip(SubSeq(q, 1, Len(q) - 1))
        ELSE q
      \* .rstrip(" .")
      RECURSIVE rstrip(_)
      rstrip(q) ==
        IF q # <<>> /\ q[Len(q)] \in {" ", "."} THEN rstrip(SubSeq(q, 1, Len(q) - 1))
        ELSE q
  IN  rstrip(strip(collapse(kept)))

(***************************************************************************)
(* State.                                                                  *)
(***************************************************************************)
VARIABLES
  \* SpecStrategy: the arguments of should_skip_transcode and what it returned
  item, bitrate, skip_result,
  \* SpecPick: one call of pick: its options, its local page, where the call
  \* stands ("called", "prompt", "returned", "exited", "raised"), what it
  \* returned and
  \* the lines typed so far
  pk_options, page, pk_state, pk_result, cmds,
  \* SpecList: one call of list_library_items: its locals start_index,
  \* all_items and total, where the call stands ("loop", "done", "raised"),
  \* the requests sent and the pages received, and the server's total
  start_index, all_items, total, ll_state, requests, pages_received, srv_total,
  \* Spec: the prompt the program waits at (or "exited", "crashed") and the
  \* exit code of the process
  pc, exit_code,
  \* the Configuration in memory (a dict) and the content of jellydown.json
  cfg, disk,
  \* main's locals base and api_key
  base, api_key,
  \* the last line typed and the prompt it was typed at
  inp, prev_pc,
  \* the answer to the last GET /Users/Me ("none" before one is asked), and
  \* the answers to the authentication requests of the last login attempt
  me, auth_answers,
  \* the flow in progress ("series", "movies" or "none"), the locals of
  \* handle_series / handle_movies and of process_download_or_stream
  flow, series, season, items, selected_index, count, out_dir, loop_i,
  \* what the current call of process_download_or_stream has asked the
  \* server: the items fetched by get_stream_url and the transfers started,
  \* each with the status code of its response, its state, the handle on its
  \* output file and what is at the output path
  fetches, transfers,
  \* SpecSanitize: one call of sanitize_filename: its argument, where the
  \* call stands ("called", "returned") and what it returned
  sf_arg, sf_state, sf_result

stratVars == <<item, bitrate, skip_result>>
pickVars == <<pk_options, page, pk_state, pk_result, cmds>>
listVars ==
  <<start_index, all_items, total, ll_state, requests, pages_received, srv_total>>
navVars == <<flow, series, season, items, selected_index, count, out_dir, loop_i>>
appVars ==
  <<pc, exit_code, cfg, disk, base, api_key, inp, prev_pc, me, auth_answers,
    navVars, fetches, transfers>>
sanVars == <<sf_arg, sf_state, sf_result>>
vars == <<stratVars, pickVars, listVars, appVars, sanVars>>

\* exit_code while the process runs, and an index local not yet bound
Running == 0 - 1
NoIndex == 0 - 1

StrategyIdle == item = JNull /\ bitrate = 0 /\ skip_result = "idle"

PickIdle ==
  /\ pk_options = <<>>
  /\ page = 0
  /\ pk_state = "idle"
  /\ pk_result = NoValue
  /\ cmds = <<>>

ListIdle ==
  /\ start_index = 0
  /\ all_items = <<>>
  /\ total = 0
  /\ ll_state = "idle"
  /\ requests = <<>>
  /\ pages_received = <<>>
  /\ srv_total = 0

SanitizeIdle == sf_arg = <<>> /\ sf_state = "idle" /\ sf_result = <<>>

AppIdle ==
  /\ pc = "idle"
  /\ exit_code = Running
  /\ cfg = <<>>
  /\ disk = [kind |-> "missing"]
  /\ base = <<>>
  /\ api_key = <<>>
  /\ inp = <<>>
  /\ me = "none"
  /\ auth_answers = <<>>
  /\ prev_pc = "idle"
  /\ flow = "none"
  /\ series = JNull
  /\ season = JNull
  /\ items = <<>>
  /\ selected_index = NoIndex
  /\ count = 0
  /\ out_dir = <<>>
  /\ loop_i = NoIndex
  /\ fetches = <<>>
  /\ transfers = <<>>

(***************************************************************************)
(* SpecStrategy: should_skip_transcode on catalog items.  An item is a     *)
(* MediaItem of the server: RunTimeTicks an integer, null or missing;      *)
(* MediaSources a list of source objects (possibly null entries), null,    *)
(* missing, or not a list at all.                                          *)
(***************************************************************************)
MaxSources == 2

\* an object of the given keys without those whose value is JAbsent
MkObj(f) == JObj([k \in {kk \in DOMAIN f : f[kk].t # "absent"} |-> f[k]])

Ticks10G == Mul(FromInt(100000), FromInt(100000))
TicksOdd == Mul(FromInt(126581056), FromInt(100))

TickChoices ==
  {JAbsent, JNull, JInt(<<>>), JInt(FromInt(18000000)), JInt(Ticks10G), JInt(TicksOdd)}

SizeChoices ==
  {JAbsent, JNull, JInt(<<>>)}
    \cup {JInt(FromInt(n)) : n \in {4200000, 498412908, 500000000, 510000000,
                                     525000001, 700000000}}

FirstSources ==
  {JNull, JObj(<<>>)}
    \cup {MkObj([Id |-> i, Size |-> z]) : i \in {JAbsent, JStr("ms1")}, z \in SizeChoices}

RestSources ==
  {JObj(<<>>), MkObj([Id |-> JStr("ms2"), Size |-> JInt(FromInt(700000000))])}

RECURSIVE SourceLists(_)
SourceLists(n) ==
  IF n = 1 THEN {<<x>> : x \in FirstSources}
  ELSE SourceLists(n - 1)
         \cup {Append(q, x) : q \in {l \in SourceLists(n - 1) : Len(l) = n - 1},
                              x \in RestSources}

MediaSourcesChoices ==
  {JAbsent, JNull, JList(<<>>), JObj([Id |-> JStr("ms1")])}
    \cup {JList(q) : q \in SourceLists(MaxSources)}

BitrateChoices == {0, 3000000, 4000000, 100000000, 0 - 4000000}

StrategyInit ==
  /\ item \in {MkObj([RunTimeTicks |-> t, MediaSources |-> m]) :
                 t \in TickChoices, m \in MediaSourcesChoices}
  /\ bitrate \in BitrateChoices
  /\ skip_result = "none"
  /\ PickIdle
  /\ ListIdle
  /\ AppIdle
  /\ SanitizeIdle

SelectStrategy ==
  /\ skip_result = "none"
  /\ skip_result' = should_skip_transcode(item, bitrate)
  /\ UNCHANGED <<item, bitrate, pickVars, listVars, appVars, sanVars>>

StrategyNext == SelectStrategy

SpecStrategy == StrategyInit /\ [][StrategyNext]_vars

(***************************************************************************)
(* Properties of should_skip_transcode, under SpecStrategy.                *)
(***************************************************************************)
Applied == skip_result \notin {"none", "idle"}

RuntimeOf(it) == Get(it, "RunTimeTicks")
SourcesOf(it) == Get(it, "MediaSources")

\* the item has no runtime (missing, null or 0 ticks)
LacksRuntime(it) == ~(RuntimeOf(it).t = "int" /\ RuntimeOf(it).v # <<>>)

KnownSize(src) == src.t = "obj" /\ Get(src, "Size").t = "int"

\* the item has no media source with a byte size
LacksKnownSize(it) ==
  \/ SourcesOf(it).t # "list"
  \/ \A n \in 1..Len(SourcesOf(it).v) : ~KnownSize(SourcesOf(it).v[n])

\* the first media source has a size S > 0
FirstSizeKnown(it) ==
  /\ SourcesOf(it).t = "list"
  /\ Len(SourcesOf(it).v) > 0
  /\ KnownSize(SourcesOf(it).v[1])
  /\ Get(SourcesOf(it).v[1], "Size").v # <<>>

FirstSize(it) == Get(SourcesOf(it).v[1], "Size").v

\* C2: with a configured bitrate of 0 the result is Direct for every item,
\* whatever its runtime and media sources are.
C2_ZeroBitrateIsDirect ==
  (Applied /\ bitrate = 0) => skip_result = "Direct"

C2_Witness ==
  /\ skip_result = "Direct"
  /\ bitrate = 0
  /\ LacksRuntime(item)
  /\ LacksKnownSize(item)

\* 8 * 10^7 * 100: the denominator of 1.05 * (B / 8) * (T / 10^7) = 105*B*T / 8*10^9
ThresholdDen == Mul(FromInt(80000), FromInt(100000))

\* 105 * B * T for B > 0
ThresholdNum(b, t) == Mul(Mul(FromInt(105), FromInt(b)), t)

\* S <= 1.05 * (B / 8) * (T / 10,000,000) in exact arithmetic
ExactWithinThreshold(b, t, sz) ==
  b > 0 /\ Cmp(Mul(sz, ThresholdDen), ThresholdNum(b, t)) <= 0

Margin == Shl(<<1>>, 50)

\* S <= X * (1 - 2^-50) for X = 1.05 * (B / 8) * (T / 10,000,000)
ClearlyWithin(b, t, sz) ==
  b > 0 /\ Cmp(Mul(Mul(sz, ThresholdDen), Margin),
               Mul(ThresholdNum(b, t), Sub(Margin, <<1>>))) <= 0

\* S > X * (1 + 2^-50)
ClearlyAbove(b, t, sz) ==
  b < 0 \/ Cmp(Mul(Mul(sz, ThresholdDen), Margin),
               Mul(ThresholdNum(b, t), Add(Margin, <<1>>))) > 0

C3_Case == Applied /\ bitrate # 0 /\ ~LacksRuntime(item) /\ FirstSizeKnown(item)

\* C3 as the specification words it: for B # 0, T > 0 and a first source of
\* size S > 0 the result is Direct exactly when
\* S <= 1.05 * (B / 8) * (T / 10,000,000).
C3_ExactThreshold ==
  C3_Case =>
    (skip_result = "Direct"
       <=> ExactWithinThreshold(bitrate, RuntimeOf(item).v, FirstSize(item)))

C3_Example(sz, res) ==
  (C3_Case /\ bitrate = 4000000 /\ RuntimeOf(item).v = Ticks10G
     /\ FirstSize(item) = FromInt(sz)) => skip_result = res

\* C3 amended: with X = 1.05 * (B / 8) * (T / 10,000,000), the result is Direct
\* whenever S <= X * (1 - 2^-50) and Transcode whenever S > X * (1 + 2^-50)
\* (between the two the rounding of the float computation decides);
\* B = 4,000,000 and T = 10,000,000,000 give Direct for S = 500,000,000 and
\* Transcode for S = 700,000,000.
C3_ThresholdUpToRounding ==
  /\ C3_Case =>
       /\ ClearlyWithin(bitrate, RuntimeOf(item).v, FirstSize(item))
            => skip_result = "Direct"
       /\ ClearlyAbove(bitrate, RuntimeOf(item).v, FirstSize(item))
            => skip_result = "Transcode"
  /\ C3_Example(500000000, "Direct")
  /\ C3_Example(700000000, "Transcode")

C3_Witness ==
  /\ C3_Case
  /\ bitrate = 4000000
  /\ RuntimeOf(item).v = Ticks10G
  /\ FirstSize(item) = FromInt(510000000)
  /\ skip_result = "Direct"

\* C4: with a non-zero bitrate, an item without runtime ticks or without a
\* media source of known size gets Transcode.
C4_MissingDataIsTranscode ==
  (Applied /\ bitrate # 0 /\ (LacksRuntime(item) \/ LacksKnownSize(item)))
    => skip_result = "Transcode"

C4_Witness ==
  /\ Applied
  /\ bitrate # 0
  /\ ~LacksRuntime(item)
  /\ LacksKnownSize(item)
  /\ SourcesOf(item).t = "list"
  /\ Len(SourcesOf(item).v) > 0
  /\ skip_result = "Transcode"

(***************************************************************************)
(* SpecPick: one call of pick.  The options carry opaque values; the user  *)
(* types at most MaxCmds lines.                                            *)
(***************************************************************************)
MaxCmds == 3

OptionCounts == {0, 1, 25, 26, 60}

MakeOptions(n) == [k \in 1..n |-> [label |-> k, value |-> [opt |-> k]]]

\* the decimal digits of n, as typed
RECURSIVE DecimalOf(_)
DecimalOf(n) ==
  IF n < 10 THEN <<CHOOSE c \in DigitChars : DigitVal(c) = n>>
  ELSE Append(DecimalOf(n \div 10), CHOOSE c \in DigitChars : DigitVal(c) = n % 10)

TypedNumbers(n) == {0, 1, 25, 26, 30, n, n + 1}

PickLines(n) ==
  {<<"q">>, <<"b">>, <<"n">>, <<"p">>, <<>>, <<"x">>, <<" ", "N", " ">>,
   <<"0", "3", "0">>, <<"3", "x">>, <<"SUP2">>, <<"3", "SUP2">>}
    \cup {DecimalOf(k) : k \in TypedNumbers(n)}

PickInit ==
  /\ pk_options \in {MakeOptions(n) : n \in OptionCounts}
  /\ page = 0
  /\ pk_state = "called"
  /\ pk_result = NoValue
  /\ cmds = <<>>
  /\ StrategyIdle
  /\ ListIdle
  /\ AppIdle
  /\ SanitizeIdle

\* if not options: return None; else page = 0 and the first page is shown
PickEnter ==
  /\ pk_state = "called"
  /\ IF pk_options = <<>>
     THEN pk_state' = "returned" /\ pk_result' = [none |-> TRUE]
     ELSE pk_state' = "prompt" /\ pk_result' = pk_result
  /\ page' = 0
  /\ UNCHANGED <<pk_options, cmds, stratVars, listVars, appVars, sanVars>>

\* one line of input at the prompt and the loop body that handles it
PickInput ==
  /\ pk_state = "prompt"
  /\ Len(cmds) < MaxCmds
  /\ \E line \in PickLines(Len(pk_options)) :
       LET r == pick_step(pk_options, page, line)
       IN  /\ cmds' = Append(cmds, line)
           /\ page' = r.page
           /\ pk_state' = CASE r.kind = "exit" -> "exited"
                            [] r.kind \in {"BACK", "value"} -> "returned"
                            [] r.kind = "raise" -> "raised"
                            [] OTHER -> "prompt"
           /\ pk_result' = CASE r.kind = "BACK" -> [back |-> TRUE]
                             [] r.kind = "value" -> r.value
                             [] OTHER -> pk_result
  /\ UNCHANGED <<pk_options, stratVars, listVars, appVars, sanVars>>

PickNext == PickEnter \/ PickInput

SpecPick == PickInit /\ [][PickNext]_vars

(***************************************************************************)
(* Properties of pick, under SpecPick.                                     *)
(***************************************************************************)
LastLine == cmds[Len(cmds)]

\* C8: a typed number k with 1 <= k <= len(options) makes pick return the value
\* of options[k-1] (sequences here are 1-based: pk_options[k]), on whatever
\* page; a number outside 1..len(options) returns nothing, pick keeps asking.
C8_NumberSelectsOption ==
  cmds # <<>> =>
    \A k \in TypedNumbers(Len(pk_options)) :
      LastLine = DecimalOf(k) =>
        IF 1 <= k /\ k <= Len(pk_options)
        THEN pk_state = "returned" /\ pk_result = pk_options[k].value
        ELSE pk_state = "prompt" /\ pk_result = NoValue

C8_Witness ==
  /\ Len(pk_options) = 60
  /\ cmds = <<<<"n">>, <<"3", "0">>>>
  /\ pk_state = "returned"
  /\ page = 1
  /\ pk_result = [opt |-> 30]

C9_PageInRange ==
  pk_state = "prompt" => (0 <= page /\ page <= PagesOf(pk_options) - 1)

C9_OnePageAtATime ==
  (pk_state = "prompt" /\ cmds' # cmds) =>
    LET c == Lower(Strip(cmds'[Len(cmds')]))
    IN  /\ c = <<"n">> =>
             page' = IF page = PagesOf(pk_options) - 1 THEN page ELSE page + 1
        /\ c = <<"p">> =>
             page' = IF page = 0 THEN page ELSE page - 1

C9_Example ==
  (Len(pk_options) = 60 /\ cmds = <<<<"n">>, <<"n">>, <<"p">>>>) =>
    /\ PagesOf(pk_options) = 3
    /\ page = 1
    /\ ShownFirst(page) = 26
    /\ ShownLast(pk_options, page) = 50

\* C9: while pick is asking, the page stays within 0 .. pages-1; n on the last
\* page and p on the first leave it unchanged, otherwise each moves one page;
\* with 60 options, n, n, p ends on the page showing items 26-50 of 3 pages.
C9_PageClamped ==
  /\ []C9_PageInRange
  /\ [][C9_OnePageAtATime]_vars
  /\ []C9_Example

C9_Witness ==
  /\ Len(pk_options) = 60
  /\ cmds = <<<<"n">>, <<"n">>, <<"n">>>>
  /\ pk_state = "prompt"
  /\ page = 2

(***************************************************************************)
(* SpecList: one call of list_library_items.  The server answers each      *)
(* request with a page of any length up to MaxPageLen and reports the same *)
(* TotalRecordCount every time (srv_total; AbsentTotal when the answer     *)
(* carries none), or the request fails (jget raises).  The loop is one     *)
(* thread that runs on after every answer: weak fairness of its step.      *)
(***************************************************************************)
MaxTotal == 4
MaxPageLen == 2
MaxRequests == 7
limit == 200

AbsentTotal == 0 - 1

ItemIds == {"a", "b"}

RECURSIVE PagesUpTo(_)
PagesUpTo(n) ==
  IF n = 0 THEN {<<>>}
  ELSE PagesUpTo(n - 1)
         \cup {Append(q, x) : q \in {l \in PagesUpTo(n - 1) : Len(l) = n - 1},
                              x \in ItemIds}

RECURSIVE Flatten(_)
Flatten(ps) == IF ps = <<>> THEN <<>> ELSE Head(ps) \o Flatten(Tail(ps))

ListInit ==
  /\ start_index = 0
  /\ all_items = <<>>
  /\ total = 0
  /\ ll_state = "loop"
  /\ requests = <<>>
  /\ pages_received = <<>>
  /\ srv_total \in (0..MaxTotal) \cup {AbsentTotal}
  /\ StrategyIdle
  /\ PickIdle
  /\ AppIdle
  /\ SanitizeIdle

\* the loop's exit test after a page of items
list_exit_total_only(idx, tot, received) == idx >= tot

list_exit(idx, tot, received) == idx >= tot \/ received = <<>>

\* one pass of the while loop: the request, the answer, the exit test
ListPage ==
  /\ ll_state = "loop"
  /\ Len(requests) < MaxRequests
  /\ requests' = Append(requests, [StartIndex |-> start_index, Limit |-> limit])
  /\ \E received \in PagesUpTo(MaxPageLen) :
       /\ pages_received' = Append(pages_received, received)
       /\ all_items' = all_items \o received
       /\ total' = IF srv_total = AbsentTotal THEN Len(all_items \o received)
                   ELSE srv_total
       /\ start_index' = start_index + Len(received)
       /\ ll_state' = IF list_exit(start_index + Len(received),
                                   IF srv_total = AbsentTotal
                                   THEN Len(all_items \o received) ELSE srv_total,
                                   received)
                      THEN "done" ELSE "loop"
  /\ UNCHANGED <<srv_total, stratVars, pickVars, appVars, sanVars>>

\* the request fails: raise_for_status or a timeout propagates out of the call
ListRaise ==
  /\ ll_state = "loop"
  /\ Len(requests) < MaxRequests
  /\ requests' = Append(requests, [StartIndex |-> start_index, Limit |-> limit])
  /\ ll_state' = "raised"
  /\ UNCHANGED <<start_index, all_items, total, pages_received, srv_total,
                 stratVars, pickVars, appVars, sanVars>>

ListNext == ListPage \/ ListRaise

SpecList == ListInit /\ [][ListNext]_vars /\ WF_vars(ListNext)

(***************************************************************************)
(* Properties of list_library_items, under SpecList.                       *)
(***************************************************************************)
C10_Requests ==
  \A n \in 1..Len(requests) :
    /\ requests[n].Limit = 200
    /\ requests[n].StartIndex = Len(Flatten(SubSeq(pages_received, 1, n - 1)))

C10_StopsAtTotalOrEmptyPage ==
  /\ (ll_state = "loop" /\ pages_received # <<>>) =>
       /\ start_index < total
       /\ pages_received[Len(pages_received)] # <<>>
  /\ ll_state = "done" =>
       \/ start_index >= total
       \/ pages_received[Len(pages_received)] = <<>>
  /\ (ll_state # "idle" /\ pages_received # <<>> /\ srv_total # AbsentTotal)
       => total = srv_total

C10_Result ==
  ll_state = "done" => all_items = Flatten(pages_received)

\* C10: with a fixed reported total the call ends (returns or raises) whatever
\* the server sends; every request asks for 200 items from the offset reached;
\* the loop goes on only while the offset is below the total and the last page
\* had items; the result is the pages received, concatenated in order.
C10_ListTerminates ==
  /\ <>(ll_state \in {"done", "raised"})
  /\ []C10_Requests
  /\ []C10_StopsAtTotalOrEmptyPage
  /\ []C10_Result

\* the server promised more than it delivered: the call ended on an empty page
C10_Witness ==
  /\ ll_state = "done"
  /\ srv_total # AbsentTotal
  /\ start_index < srv_total
  /\ Len(all_items) > 0
  /\ pages_received[Len(pages_received)] = <<>>

(***************************************************************************)
(* Spec: the interactive program.                                          *)
(*                                                                         *)
(* Text the program handles (typed lines, configuration values, URLs) is   *)
(* a sequence of characters.                                               *)
(***************************************************************************)
S ==
  [h264 |-> <<"h", "2", "6", "4">>, hevc |-> <<"h", "e", "v", "c">>,
   aac |-> <<"a", "a", "c">>, mp3 |-> <<"m", "p", "3">>,
   ac3 |-> <<"a", "c", "3">>, opus |-> <<"o", "p", "u", "s">>,
   CUSTOM |-> <<"C", "U", "S", "T", "O", "M">>,
   Encode |-> <<"E", "n", "c", "o", "d", "e">>,
   http |-> <<"h", "t", "t", "p", ":", "/", "/">>,
   https |-> <<"h", "t", "t", "p", "s", ":", "/", "/">>,
   port8096 |-> <<":", "8", "0", "9", "6">>,
   dot |-> <<".">>,
   \* what the user types for the server, and the token the server grants
   host |-> <<"h">>,
   url |-> <<"h", "t", "t", "p", ":", "/", "/", "h", ":", "8", "0", "9", "6">>,
   token |-> <<"t", "o", "k">>]

(***************************************************************************)
(* config.py.  The Configuration is a dict: a function from its keys to    *)
(* strings (sequences of characters) and integers.  The file               *)
(* jellydown.json is missing, cannot be read (a directory, no permission,  *)
(* bytes that are not UTF-8), or holds a text.  A text is the sequence of  *)
(* its characters, except that the name of a setting inside its quotes is  *)
(* one symbol: the model does not spell the names.  The numeric settings   *)
(* hold integers and the other settings strings, as the program writes     *)
(* them.                                                                   *)
(***************************************************************************)
defaults ==
  [VideoCodec |-> S.h264, AudioCodec |-> S.aac, VideoBitrate |-> 4000000,
   MaxStreamingBitrate |-> 4000000, AudioBitrate |-> 128000,
   MaxAudioChannels |-> 2, SubtitleMethod |-> S.Encode]

\* dict.update
Update(d, data) ==
  [k \in DOMAIN d \cup DOMAIN data |-> IF k \in DOMAIN data THEN data[k] ELSE d[k]]

\* cfg[k] = v
CfgSet(c, k, v) == [x \in DOMAIN c \cup {k} |-> IF x = k THEN v ELSE c[x]]

\* cfg.get(k, dflt)
CfgGet(c, k, dflt) == IF k \in DOMAIN c THEN c[k] ELSE dflt

\* an encoder that writes every character of a string as it is
EscapeChar_verbatim(c) == <<c>>

\* json.dumps, one character of a string: the quote, the backslash and the
\* control characters are escaped (the strings considered are ASCII)
EscapeChar(c) ==
  CASE c = "\"" -> <<"\\", "\"">>
    [] c = "\\" -> <<"\\", "\\">>
    [] c = "\n" -> <<"\\", "n">>
    [] c = "\t" -> <<"\\", "t">>
    [] c = "\r" -> <<"\\", "r">>
    [] c = "\f" -> <<"\\", "f">>
    [] OTHER -> <<c>>

\* json.dumps(c, indent=2): one member per line, indented by two blanks.
\* The members are written in some order (Python: the order of insertion).
json_dumps(c) ==
  LET IntKeys ==
        {"VideoBitrate", "MaxStreamingBitrate", "AudioBitrate", "MaxAudioChannels"}
      RECURSIVE quoted(_)
      quoted(s) == IF s = <<>> THEN <<>> ELSE EscapeChar(Head(s)) \o quoted(Tail(s))
      literal(k) ==
        IF k \in IntKeys
        THEN IF c[k] < 0 THEN <<"-">> \o DecimalOf(0 - c[k]) ELSE DecimalOf(c[k])
        ELSE <<"\"">> \o quoted(c[k]) \o <<"\"">>
      RECURSIVE members(_)
      members(ks) ==
        IF ks = {} THEN <<>>
        ELSE LET k == CHOOSE x \in ks : TRUE
             IN  <<"\n", " ", " ", "\"", k, "\"", ":", " ">> \o literal(k)
                   \o (IF ks = {k} THEN <<>> ELSE <<",">>)
                   \o members(ks \ {k})
  IN  IF DOMAIN c = {} THEN <<"{", "}">>
      ELSE <<"{">> \o members(DOMAIN c) \o <<"\n", "}">>

\* json.loads(text): [ok |-> FALSE] for JSONDecodeError, else the value v
\* with its type t: "dict" (a function from the keys), "list", "str",
\* "int", "float" (v is its text) or "lit" (null, true, false, NaN,
\* Infinity, -Infinity).  Escapes \b and \uXXXX do not occur in the texts
\* considered.
json_loads(text) ==
  LET n == Len(text)
      At(i) == IF i <= n THEN text[i] ELSE "EOF"
      Fail == [ok |-> FALSE]
      Ok(t, v, i) == [ok |-> TRUE, t |-> t, v |-> v, i |-> i]
      Word(i, w) == i + Len(w) - 1 <= n /\ SubSeq(text, i, i + Len(w) - 1) = w
      RECURSIVE skip(_)
      skip(i) == IF At(i) \in {" ", "\n", "\t", "\r"} THEN skip(i + 1) ELSE i
      RECURSIVE digits(_)
      digits(i) == IF At(i) \in DigitChars THEN digits(i + 1) ELSE i
      Unescape(c) ==
        CASE c = "n" -> "\n" [] c = "t" -> "\t" [] c = "r" -> "\r"
          [] c = "f" -> "\f" [] OTHER -> c
      \* the characters of a string, after its opening quote
      RECURSIVE str(_, _)
      str(i, acc) ==
        IF i > n \/ text[i] \in {"\n", "\t", "\r", "\f"} THEN Fail
        ELSE IF text[i] = "\"" THEN Ok("str", acc, i + 1)
        ELSE IF text[i] = "\\"
        THEN IF At(i + 1) \in {"\"", "\\", "/", "n", "t", "r", "f"}
             THEN str(i + 2, Append(acc, Unescape(text[i + 1])))
             ELSE Fail
        ELSE str(i + 1, Append(acc, text[i]))
      \* -?(0|[1-9][0-9]*)(\.[0-9]+)?([eE][-+]?[0-9]+)?: i is the start, j the
      \* first digit, e the end of the integer part, g the end of the number
      number(i, j, e, g) ==
        IF e = j THEN Fail
        ELSE IF g > e THEN Ok("float", SubSeq(text, i, g - 1), g)
        ELSE Ok("int", IF j > i THEN 0 - ParseInt(SubSeq(text, j, e - 1))
                       ELSE ParseInt(SubSeq(text, j, e - 1)), e)
      fraction(e) ==
        IF At(e) = "." /\ At(e + 1) \in DigitChars THEN digits(e + 1) ELSE e
      exponent(f) ==
        LET x == IF At(f + 1) \in {"+", "-"} THEN f + 2 ELSE f + 1
        IN  IF At(f) \in {"e", "E"} /\ At(x) \in DigitChars THEN digits(x) ELSE f
      integer(i, j, e) == number(i, j, e, exponent(fraction(e)))
      signed(i, j) == integer(i, j, IF At(j) = "0" THEN j + 1 ELSE digits(j))
      num(i) == signed(i, IF At(i) = "-" THEN i + 1 ELSE i)
      RECURSIVE value(_), members(_, _), member_key(_, _), member_value(_, _, _),
                member_next(_, _), elements(_, _), element_value(_, _),
                element_next(_, _)
      value(i) ==
        CASE At(i) = "\"" -> str(i + 1, <<>>)
          [] At(i) = "{" ->
               IF At(skip(i + 1)) = "}" THEN Ok("dict", <<>>, skip(i + 1) + 1)
               ELSE members(skip(i + 1), <<>>)
          [] At(i) = "[" ->
               IF At(skip(i + 1)) = "]" THEN Ok("list", <<>>, skip(i + 1) + 1)
               ELSE elements(skip(i + 1), <<>>)
          [] Word(i, <<"n", "u", "l", "l">>) -> Ok("lit", "null", i + 4)
          [] Word(i, <<"t", "r", "u", "e">>) -> Ok("lit", "true", i + 4)
          [] Word(i, <<"f", "a", "l", "s", "e">>) -> Ok("lit", "false", i + 5)
          [] Word(i, <<"N", "a", "N">>) -> Ok("lit", "NaN", i + 3)
          [] Word(i, <<"I", "n", "f", "i", "n", "i", "t", "y">>) ->
               Ok("lit", "Infinity", i + 8)
          [] Word(i, <<"-", "I", "n", "f", "i", "n", "i", "t", "y">>) ->
               Ok("lit", "-Infinity", i + 9)
          [] OTHER -> num(i)
      \* the members of an object from the quote of a key on: the key k, the
      \* colon, the value v, then "}" or "," and the next member; a key that
      \* comes twice keeps its last value
      members(i, acc) ==
        IF At(i) # "\"" THEN Fail ELSE member_key(acc, str(i + 1, <<>>))
      member_key(acc, k) ==
        IF ~k.ok \/ At(skip(k.i)) # ":" THEN Fail
        ELSE member_value(acc, k, value(skip(skip(k.i) + 1)))
      member_value(acc, k, v) ==
        IF ~v.ok THEN Fail
        ELSE member_next(CfgSet(acc, IF Len(k.v) = 1 THEN k.v[1] ELSE k.v,
                                [t |-> v.t, v |-> v.v]),
                         skip(v.i))
      member_next(d, next) ==
        IF At(next) = "}" THEN Ok("dict", d, next + 1)
        ELSE IF At(next) = "," THEN members(skip(next + 1), d)
        ELSE Fail
      \* the elements of a list
      elements(i, acc) == element_value(acc, value(i))
      element_value(acc, v) ==
        IF ~v.ok THEN Fail
        ELSE element_next(Append(acc, [t |-> v.t, v |-> v.v]), skip(v.i))
      element_next(q, next) ==
        IF At(next) = "]" THEN Ok("list", q, next + 1)
        ELSE IF At(next) = "," THEN elements(skip(next + 1), q)
        ELSE Fail
      \* one value and nothing but blanks after it
      document(top) ==
        IF top.ok /\ skip(top.i) = n + 1
        THEN [ok |-> TRUE, t |-> top.t, v |-> top.v]
        ELSE Fail
  IN  document(value(skip(1)))

\* a load_config without its try block
\* cfg.update(data) on the defaults, for what json.loads gave: the strings
\* and integers of an object are Python's str and int, other values stay
\* tagged; anything but an object leaves the defaults
Updated(data) ==
  IF data.ok /\ data.t = "dict"
  THEN Update(defaults,
              [k \in DOMAIN data.v |->
                 IF data.v[k].t \in {"str", "int"} THEN data.v[k].v
                 ELSE data.v[k]])
  ELSE defaults

UpdatedOrRaised(data) ==
  IF ~data.ok THEN [raised |-> "JSONDecodeError"] ELSE Updated(data)

load_config_uncaught(file) ==
  IF file.kind = "missing" THEN defaults
  ELSE IF file.kind = "unreadable" THEN [raised |-> "OSError"]
  ELSE UpdatedOrRaised(json_loads(file.text))

\* load_config(): a missing file skips the try block; in it read_text and
\* json.loads may raise, which except Exception swallows.
load_config(file) ==
  IF file.kind = "text" THEN Updated(json_loads(file.text)) ELSE defaults

\* the content of the file after save_config(c): write_text replaces it
save_config(c) == [kind |-> "text", text |-> json_dumps(c)]

(***************************************************************************)
(* prompt_int(prompt, default, min_value, max_value) on the line typed.    *)
(***************************************************************************)
\* v = int(raw) raises ValueError, which nothing catches, on a line that
\* isdigit() accepts and int() does not
prompt_int_raises(line) ==
  LET raw == Strip(line)
  IN  raw # <<>> /\ IsDigit(raw) /\ IntRaises(raw)

\* the value prompt_int returns when it returns
prompt_int(line, default, min_value, max_value) ==
  LET raw == Strip(line)
  IN  IF raw = <<>> THEN default
      ELSE IF ~IsDigit(raw) THEN default
      ELSE LET v == ParseInt(raw)
               capped == IF max_value < v THEN max_value ELSE v
           IN  IF min_value > capped THEN min_value ELSE capped

(***************************************************************************)
(* The server URL, as main normalises it (startswith, urlparse).           *)
(***************************************************************************)
StartsWith(s, p) == Len(s) >= Len(p) /\ SubSeq(s, 1, Len(p)) = p

\* the first and the last position of character c in s, 0 if there is none
FirstIndex(s, c) ==
  IF \E n \in 1..Len(s) : s[n] = c
  THEN CHOOSE n \in 1..Len(s) : s[n] = c /\ \A m \in 1..(n - 1) : s[m] # c
  ELSE 0

LastIndex(s, c) ==
  IF \E n \in 1..Len(s) : s[n] = c
  THEN CHOOSE n \in 1..Len(s) : s[n] = c /\ \A m \in (n + 1)..Len(s) : s[m] # c
  ELSE 0

\* if not base.startswith(("http://", "https://")): base = "http://" + base
WithScheme(b) ==
  IF StartsWith(b, S.http) \/ StartsWith(b, S.https) THEN b ELSE S.http \o b

\* urlparse(b) of a URL that has its scheme; port 0 stands for None (a port
\* of 0 is falsy as well)
urlparse(b) ==
  LET scheme == IF StartsWith(b, S.https) THEN SubSeq(S.https, 1, 5)
                ELSE SubSeq(S.http, 1, 4)
      rest == SubSeq(b, Len(scheme) + 4, Len(b))
      slash == FirstIndex(rest, "/")
      netloc == IF slash = 0 THEN rest ELSE SubSeq(rest, 1, slash - 1)
      colon == LastIndex(netloc, ":")
      digits == SubSeq(netloc, colon + 1, Len(netloc))
  IN  [scheme |-> scheme,
       hostname |-> Lower(IF colon = 0 THEN netloc ELSE SubSeq(netloc, 1, colon - 1)),
       port |-> IF colon # 0 /\ IsDigit(digits) THEN ParseInt(digits) ELSE 0,
       path |-> IF slash = 0 THEN <<>> ELSE SubSeq(rest, slash, Len(rest))]

\* f"{parsed.scheme}://{parsed.hostname}:8096{parsed.path}"
WithDefaultPort(b) ==
  LET parsed == urlparse(b)
  IN  parsed.scheme \o <<":", "/", "/">> \o parsed.hostname \o S.port8096
        \o parsed.path

(***************************************************************************)
(* What the server holds: two series (the first with two seasons, the      *)
(* second with none), three episodes in the first season and none in the   *)
(* second, two movies.  The second episode and the second movie are listed *)
(* without media sources, the third episode's source has no Id.            *)
(***************************************************************************)
Source(id, size) == MkObj([Id |-> id, Size |-> JInt(FromInt(size))])

SeriesItems ==
  <<JObj([Id |-> JStr("sr1"), Name |-> JStr("Alpha")]),
    JObj([Id |-> JStr("sr2"), Name |-> JStr("Beta")])>>

\* GET /Shows/{series_id}/Seasons
SeasonsOf(s) ==
  IF Get(s, "Id") = JStr("sr1")
  THEN <<JObj([Id |-> JStr("sn1"), IndexNumber |-> JInt(FromInt(1))]),
         JObj([Id |-> JStr("sn2"), IndexNumber |-> JInt(FromInt(2))])>>
  ELSE <<>>

\* GET /Shows/{series_id}/Episodes with SeasonId
EpisodesOf(s, sn) ==
  IF Get(s, "Id") = JStr("sr1") /\ Get(sn, "Id") = JStr("sn1")
  THEN <<JObj([Id |-> JStr("ep1"), Type |-> JStr("Episode"),
               RunTimeTicks |-> JInt(Ticks10G),
               MediaSources |-> JList(<<Source(JStr("ms1"), 500000000)>>)]),
         JObj([Id |-> JStr("ep2"), Type |-> JStr("Episode"),
               RunTimeTicks |-> JInt(Ticks10G)]),
         JObj([Id |-> JStr("ep3"), Type |-> JStr("Episode"),
               RunTimeTicks |-> JInt(Ticks10G),
               MediaSources |-> JList(<<Source(JAbsent, 700000000)>>)])>>
  ELSE <<>>

MovieItems ==
  <<JObj([Id |-> JStr("mv1"), Type |-> JStr("Movie"),
          RunTimeTicks |-> JInt(Ticks10G),
          MediaSources |-> JList(<<Source(JStr("ms4"), 700000000)>>)]),
    JObj([Id |-> JStr("mv2"), Type |-> JStr("Movie")])>>

\* the picker options built from a list: the value is the element ...
ValueOptions(q) == [n \in 1..Len(q) |-> [value |-> q[n]]]

\* ... or its index, as enumerate gives it
IndexOptions(q) == [n \in 1..Len(q) |-> [value |-> n - 1]]

VideoCodecOptions == <<[value |-> S.h264], [value |-> S.hevc], [value |-> S.CUSTOM]>>

AudioCodecOptions ==
  <<[value |-> S.aac], [value |-> S.mp3], [value |-> S.ac3], [value |-> S.opus],
    [value |-> S.CUSTOM]>>

\* get_stream_url: the media source id the listing gives, None if it gives none
ListedSourceId(it) ==
  LET ms == OrEmptyList(Get(it, "MediaSources"))
  IN  IF Truthy(ms) /\ ms.t = "list" /\ ms.v[1].t = "obj"
      THEN Get(ms.v[1], "Id") ELSE JNull

\* get_stream_url asks the server for the item when the listing has no id
NeedsFetch(it) == ~Truthy(ListedSourceId(it))

\* the end of range(selected_index, min(len(items), selected_index + count))
BatchEnd ==
  IF Len(items) < selected_index + count THEN Len(items)
  ELSE selected_index + count

(***************************************************************************)
(* The lines the user types at each prompt, and the answers of the server. *)
(***************************************************************************)
Lines(at) ==
  CASE at = "url_prompt" -> {S.host, S.url}
    [] at = "port_prompt" -> {<<>>, <<"Y">>}
    [] at = "cred_choice" -> {<<"1">>, <<"2">>, <<"3">>}
    [] at \in {"username_prompt", "password_prompt"} -> {<<"u">>}
    [] at = "api_key_prompt" -> {<<>>, S.token}
    [] at = "main_menu" -> {<<"1">>, <<"2">>, <<"3">>, <<"q">>, <<"Q", " ">>, <<"x">>}
    [] at = "settings" ->
         {<<"1">>, <<"2">>, <<"3">>, <<"4">>, <<"5">>, <<"b">>, <<"q">>}
    [] at = "video_codec_pick" -> {<<"2">>, <<"3">>, <<"b">>, <<"q">>, <<"4">>}
    [] at = "audio_codec_pick" -> {<<"1">>, <<"5">>, <<"b">>, <<"Q">>, <<"n">>}
    [] at = "video_codec_custom" -> {<<>>}
    [] at = "audio_codec_custom" -> {<<" ">>, <<"f", "l", "a", "c">>}
    [] at = "video_bitrate_prompt" ->
         {<<>>, <<"0">>, <<"x">>, <<"9", "9", "9", "9", "9", "9", "9", "9", "9">>,
          <<"SUP2">>}
    [] at = "audio_bitrate_prompt" -> {<<>>, <<"0">>}
    [] at = "channels_prompt" -> {<<>>, <<"9">>}
    [] at \in {"series_pick", "season_pick", "episode_pick", "movie_pick"} ->
         {<<"1">>, <<"2">>, <<"3">>, <<"4">>, <<"b">>, <<"q">>, <<"n">>, <<"SUP2">>}
    [] at = "download_prompt" -> {<<>>, <<"y">>, <<"Y", " ">>, <<"n">>}
    [] at = "count_prompt" -> {<<>>, <<"2">>, <<"9">>, <<"SUP2">>}
    [] at = "output_dir_prompt" -> {<<>>, <<"d">>}
    [] at = "press_enter" -> {<<>>}

\* the answers of the server.  GET /Users/Me: a user with an Id, a body
\* without Id, 401, another failure; POST /Users/AuthenticateByName: no
\* connection, an HTTP error, a body that is not JSON, a JSON list, a JSON
\* object without or with AccessToken; a library listing: it fails, it is empty, it
\* has the items; any other GET: it fails or it answers
Answers(request) ==
  CASE request = "me" -> {"ok", "no_id", "401", "error"}
    [] request = "authenticate" ->
         {[kind |-> "unreachable"], [kind |-> "http_error"], [kind |-> "not_json"],
          [kind |-> "json_list"], [kind |-> "json", has |-> FALSE],
          [kind |-> "json", has |-> TRUE, AccessToken |-> <<>>],
          [kind |-> "json", has |-> TRUE, AccessToken |-> S.token]}
    [] request = "list" -> {"error", "empty", "items"}
    [] request = "get" -> {"error", "ok"}

\* jellydown.json when the program starts
ConfigFiles ==
  {[kind |-> "missing"],
   \* {"VideoBitrate": 0,}
   [kind |-> "text",
    text |-> <<"{", "\"", "VideoBitrate", "\"", ":", " ", "0", ",", "}">>],
   \* []
   [kind |-> "text", text |-> <<"[", "]">>],
   \* {"VideoBitrate": 0, "MaxStreamingBitrate": 0}
   [kind |-> "text",
    text |-> <<"{", "\"", "VideoBitrate", "\"", ":", " ", "0", ",", " ",
               "\"", "MaxStreamingBitrate", "\"", ":", " ", "0", "}">>],
   \* what a run that signed in and set the bitrate to 0 has saved
   save_config(Update(defaults, [server_url |-> S.url, api_key |-> S.token,
                                 VideoBitrate |-> 0, MaxStreamingBitrate |-> 0]))}

AppInit ==
  /\ pc = "start"
  /\ exit_code = Running
  /\ cfg = <<>>
  /\ disk \in ConfigFiles
  /\ base = <<>>
  /\ api_key = <<>>
  /\ inp = <<>>
  /\ me = "none"
  /\ auth_answers = <<>>
  /\ prev_pc = "start"
  /\ flow = "none"
  /\ series = JNull
  /\ season = JNull
  /\ items = <<>>
  /\ selected_index = NoIndex
  /\ count = 0
  /\ out_dir = <<>>
  /\ loop_i = NoIndex
  /\ fetches = <<>>
  /\ transfers = <<>>
  /\ StrategyIdle
  /\ PickIdle
  /\ ListIdle
  /\ SanitizeIdle

otherVars ==
  <<stratVars, pk_options, pk_state, pk_result, cmds, listVars, sanVars>>

\* input(...): the line typed, at the prompt the program waits at
Typed(line) == inp' = line /\ prev_pc' = pc

Goto(p) == pc' = p /\ exit_code' = exit_code

\* sys.exit(code)
SysExit(code) == pc' = "exited" /\ exit_code' = code

\* an exception nothing catches: traceback, exit status 1
Uncaught == pc' = "crashed" /\ exit_code' = 1

\* how pick ends the process: sys.exit(0) on q, the ValueError of int(cmd)
Leave(kind) == IF kind = "exit" THEN SysExit(0) ELSE Uncaught

(***************************************************************************)
(* main, up to the menu loop.                                              *)
(***************************************************************************)
\* a startup that shows the menu although /Users/Me gave no Id
\* a main that asks /Users/Me first and writes the config file only for a
\* token the server accepts
Identify_checks_first(c, b, k) ==
  /\ cfg' = CfgSet(CfgSet(c, "server_url", b), "api_key", k)
  /\ base' = b
  /\ api_key' = k
  /\ \E answer \in Answers("me") :
       /\ me' = answer
       /\ IF answer = "ok" THEN Goto("main_menu") /\ disk' = save_config(cfg')
          ELSE IF answer = "error" THEN Uncaught /\ UNCHANGED disk
          ELSE SysExit(1) /\ UNCHANGED disk

Identify_menu_without_id(c, b, k) ==
  /\ cfg' = CfgSet(CfgSet(c, "server_url", b), "api_key", k)
  /\ disk' = save_config(cfg')
  /\ base' = b
  /\ api_key' = k
  /\ \E answer \in Answers("me") :
       /\ me' = answer
       /\ IF answer \in {"ok", "no_id"} THEN Goto("main_menu")
          ELSE IF answer = "error" THEN Uncaught
          ELSE SysExit(1)

\* lines 53-71: store URL and key, save, then GET /Users/Me
Identify(c, b, k) ==
  /\ cfg' = CfgSet(CfgSet(c, "server_url", b), "api_key", k)
  /\ disk' = save_config(cfg')
  /\ base' = b
  /\ api_key' = k
  /\ \E answer \in Answers("me") :
       /\ me' = answer
       /\ IF answer = "ok" THEN Goto("main_menu")
          ELSE IF answer = "error" THEN Uncaught
          ELSE SysExit(1)

\* lines 30-37
Credentials(c, b) ==
  LET k == Strip(CfgGet(c, "api_key", <<>>))
  IN  IF k = <<>>
      THEN /\ cfg' = c
           /\ base' = b
           /\ api_key' = k
           /\ Goto("cred_choice")
           /\ UNCHANGED <<disk, me>>
      ELSE Identify(c, b, k)

\* lines 20-28
EnsurePort(c, b0) ==
  LET b == WithScheme(b0)
  IN  IF urlparse(b).port = 0
      THEN /\ cfg' = c
           /\ base' = b
           /\ Goto("port_prompt")
           /\ UNCHANGED <<disk, api_key, me>>
      ELSE Credentials(c, b)

\* main with the configuration c it has loaded: the stored server URL, or
\* the prompt for one
Startup(c) ==
  LET b == Strip(CfgGet(c, "server_url", <<>>))
  IN  IF b = <<>>
      THEN /\ cfg' = c
           /\ base' = b
           /\ Goto("url_prompt")
           /\ UNCHANGED <<disk, api_key, me>>
      ELSE EnsurePort(c, b)

LoadConfig ==
  /\ pc = "start"
  /\ Startup(load_config(disk))
  /\ UNCHANGED <<inp, prev_pc, page, navVars, fetches, transfers, auth_answers, otherVars>>

UrlPrompt ==
  /\ pc = "url_prompt"
  /\ \E line \in Lines(pc) :
       /\ Typed(line)
       /\ EnsurePort(cfg, Strip(line))
  /\ UNCHANGED <<page, navVars, fetches, transfers, auth_answers, otherVars>>

PortPrompt ==
  /\ pc = "port_prompt"
  /\ \E line \in Lines(pc) :
       /\ Typed(line)
       /\ LET add_port == Lower(Strip(line))
          IN  Credentials(cfg, IF add_port # <<"n">> THEN WithDefaultPort(base)
                               ELSE base)
  /\ UNCHANGED <<page, navVars, fetches, transfers, auth_answers, otherVars>>

CredChoice ==
  /\ pc = "cred_choice"
  /\ \E line \in Lines(pc) :
       /\ Typed(line)
       /\ auth_answers' = <<>>
       /\ LET choice == Strip(line)
          IN  IF choice = <<"1">> THEN Goto("username_prompt")
              ELSE IF choice = <<"2">> THEN Goto("api_key_prompt")
              ELSE Goto("cred_choice")
  /\ UNCHANGED <<cfg, disk, base, api_key, page, navVars, fetches, transfers, me, otherVars>>

UsernamePrompt ==
  /\ pc = "username_prompt"
  /\ \E line \in Lines(pc) : Typed(line)
  /\ Goto("password_prompt")
  /\ UNCHANGED <<cfg, disk, base, api_key, page, navVars, fetches, transfers, me, auth_answers, otherVars>>

\* an authenticate that sends its request again when the attempt fails
authenticate_retries(answer) ==
  IF answer.kind = "json" /\ answer.has
  THEN [none |-> FALSE, token |-> answer.AccessToken, sent |-> <<answer.kind>>]
  ELSE [none |-> TRUE, token |-> <<>>, sent |-> <<answer.kind, answer.kind>>]

\* authenticate(base, username, password): one requests.post; the
\* AccessToken of the body, or None (none: no key AccessToken, or an
\* exception of post, raise_for_status, json or get, all caught).  sent
\* lists the answers to the requests it has sent.
authenticate(answer) ==
  IF answer.kind = "json" /\ answer.has
  THEN [none |-> FALSE, token |-> answer.AccessToken, sent |-> <<answer.kind>>]
  ELSE [none |-> TRUE, token |-> <<>>, sent |-> <<answer.kind>>]

\* getpass, then token = authenticate(...); if token: the loop is left
PasswordPrompt ==
  /\ pc = "password_prompt"
  /\ \E line \in Lines(pc), answer \in Answers("authenticate") :
       LET res == authenticate(answer)
       IN  /\ Typed(line)
           /\ auth_answers' = res.sent
           /\ IF ~res.none /\ res.token # <<>>
              THEN Identify(cfg, base, res.token)
              ELSE Goto("cred_choice") /\ UNCHANGED <<cfg, disk, base, api_key, me>>
  /\ UNCHANGED <<page, navVars, fetches, transfers, otherVars>>

ApiKeyPrompt ==
  /\ pc = "api_key_prompt"
  /\ \E line \in Lines(pc) :
       /\ Typed(line)
       /\ IF Strip(line) # <<>>
          THEN Identify(cfg, base, Strip(line))
          ELSE Goto("cred_choice") /\ UNCHANGED <<cfg, disk, base, api_key, me>>
  /\ UNCHANGED <<page, navVars, fetches, transfers, auth_answers, otherVars>>

(***************************************************************************)
(* main's menu loop.  Choices 1 and 2 enter handle_series and              *)
(* handle_movies, which list the library first.                            *)
(***************************************************************************)
MainMenu ==
  /\ pc = "main_menu"
  /\ \E line \in Lines(pc) :
       /\ Typed(line)
       /\ LET choice == Lower(Strip(line))
          IN  IF choice = <<"1">>
              THEN \E answer \in Answers("list") :
                     IF answer = "error"
                     THEN Uncaught /\ UNCHANGED <<page, flow, items>>
                     ELSE IF answer = "empty"
                     THEN Goto("main_menu") /\ UNCHANGED <<page, flow, items>>
                     ELSE /\ Goto("series_pick")
                          /\ page' = 0
                          /\ flow' = "series"
                          /\ UNCHANGED items
              ELSE IF choice = <<"2">>
              THEN \E answer \in Answers("list") :
                     IF answer = "error"
                     THEN Uncaught /\ UNCHANGED <<page, flow, items>>
                     ELSE IF answer = "empty"
                     THEN Goto("main_menu") /\ UNCHANGED <<page, flow, items>>
                     ELSE /\ Goto("movie_pick")
                          /\ page' = 0
                          /\ flow' = "movies"
                          /\ items' = MovieItems
              ELSE IF choice = <<"3">>
              THEN Goto("settings") /\ UNCHANGED <<page, flow, items>>
              ELSE IF choice = <<"q">>
              THEN SysExit(0) /\ UNCHANGED <<page, flow, items>>
              ELSE Goto("main_menu") /\ UNCHANGED <<page, flow, items>>
  /\ UNCHANGED <<cfg, disk, base, api_key, series, season, selected_index, count,
                 out_dir, loop_i, fetches, transfers, me, auth_answers, otherVars>>

(***************************************************************************)
(* settings_menu.                                                          *)
(***************************************************************************)
SettingsChoice ==
  /\ pc = "settings"
  /\ \E line \in Lines(pc) :
       /\ Typed(line)
       /\ LET choice == Lower(Strip(line))
          IN  IF choice = <<"b">>
              THEN /\ disk' = save_config(cfg)
                   /\ Goto("main_menu")
                   /\ UNCHANGED page
              ELSE /\ UNCHANGED disk
                   /\ IF choice = <<"1">>
                      THEN Goto("video_codec_pick") /\ page' = 0
                      ELSE IF choice = <<"2">>
                      THEN Goto("audio_codec_pick") /\ page' = 0
                      ELSE IF choice = <<"3">>
                      THEN Goto("video_bitrate_prompt") /\ UNCHANGED page
                      ELSE IF choice = <<"4">>
                      THEN Goto("audio_bitrate_prompt") /\ UNCHANGED page
                      ELSE IF choice = <<"5">>
                      THEN Goto("channels_prompt") /\ UNCHANGED page
                      ELSE Goto("settings") /\ UNCHANGED page
  /\ UNCHANGED <<cfg, base, api_key, navVars, fetches, transfers, me, auth_answers, otherVars>>

\* res = pick(options): q exits, b and an invalid line leave cfg alone
CodecPick(at, options, key, custom) ==
  /\ pc = at
  /\ \E line \in Lines(at) :
       /\ Typed(line)
       /\ LET res == pick_step(options, page, line)
          IN  /\ page' = res.page
              /\ IF res.kind \in {"exit", "raise"} THEN Leave(res.kind) /\ UNCHANGED cfg
                 ELSE IF res.kind = "BACK" THEN Goto("settings") /\ UNCHANGED cfg
                 ELSE IF res.kind = "value"
                 THEN IF res.value = S.CUSTOM
                      THEN Goto(custom) /\ UNCHANGED cfg
                      ELSE Goto("settings") /\ cfg' = CfgSet(cfg, key, res.value)
                 ELSE Goto(at) /\ UNCHANGED cfg
  /\ UNCHANGED <<disk, base, api_key, navVars, fetches, transfers, me, auth_answers, otherVars>>

\* cfg[key] = input(...).strip() or dflt
CodecCustom(at, key, dflt) ==
  /\ pc = at
  /\ \E line \in Lines(at) :
       /\ Typed(line)
       /\ cfg' = CfgSet(cfg, key, IF Strip(line) # <<>> THEN Strip(line) ELSE dflt)
  /\ Goto("settings")
  /\ UNCHANGED <<disk, base, api_key, page, navVars, fetches, transfers, me, auth_answers, otherVars>>

VideoCodecPick ==
  CodecPick("video_codec_pick", VideoCodecOptions, "VideoCodec",
            "video_codec_custom")

VideoCodecCustom ==
  CodecCustom("video_codec_custom", "VideoCodec", S.h264)

AudioCodecPick ==
  CodecPick("audio_codec_pick", AudioCodecOptions, "AudioCodec",
            "audio_codec_custom")

AudioCodecCustom ==
  CodecCustom("audio_codec_custom", "AudioCodec", S.aac)

VideoBitratePrompt ==
  /\ pc = "video_bitrate_prompt"
  /\ \E line \in Lines(pc) :
       /\ Typed(line)
       /\ IF prompt_int_raises(line)
          THEN Uncaught /\ UNCHANGED cfg
          ELSE /\ LET v == prompt_int(line, 4000000, 0, 100000000)
                  IN  cfg' = CfgSet(CfgSet(cfg, "VideoBitrate", v),
                                    "MaxStreamingBitrate", v)
               /\ Goto("settings")
  /\ UNCHANGED <<disk, base, api_key, page, navVars, fetches, transfers, me, auth_answers, otherVars>>

AudioBitratePrompt ==
  /\ pc = "audio_bitrate_prompt"
  /\ \E line \in Lines(pc) :
       /\ Typed(line)
       /\ IF prompt_int_raises(line)
          THEN Uncaught /\ UNCHANGED cfg
          ELSE /\ cfg' = CfgSet(cfg, "AudioBitrate",
                                prompt_int(line, 128000, 1, 1000000))
               /\ Goto("settings")
  /\ UNCHANGED <<disk, base, api_key, page, navVars, fetches, transfers, me, auth_answers, otherVars>>

MaxAudioChannelsPrompt ==
  /\ pc = "channels_prompt"
  /\ \E line \in Lines(pc) :
       /\ Typed(line)
       /\ IF prompt_int_raises(line)
          THEN Uncaught /\ UNCHANGED cfg
          ELSE /\ cfg' = CfgSet(cfg, "MaxAudioChannels", prompt_int(line, 2, 1, 8))
               /\ Goto("settings")
  /\ UNCHANGED <<disk, base, api_key, page, navVars, fetches, transfers, me, auth_answers, otherVars>>

(***************************************************************************)
(* handle_series and handle_movies.                                        *)
(***************************************************************************)
\* the top of handle_series's while loop: a new call of pick on the series
SeriesLoop ==
  /\ Goto("series_pick")
  /\ page' = 0
  /\ series' = JNull
  /\ season' = JNull
  /\ items' = <<>>

\* process_download_or_stream, up to its first prompt: the stream URL of the
\* selected item, for which get_stream_url may have to fetch the item
Preview(idx) ==
  /\ selected_index' = idx
  /\ transfers' = <<>>
  /\ IF NeedsFetch(items[idx + 1])
     THEN /\ fetches' = <<Get(items[idx + 1], "Id").v>>
          /\ \E answer \in Answers("get") :
               IF answer = "error" THEN Uncaught ELSE Goto("download_prompt")
     ELSE /\ fetches' = <<>>
          /\ Goto("download_prompt")

SeriesPick ==
  /\ pc = "series_pick"
  /\ \E line \in Lines(pc) :
       /\ Typed(line)
       /\ LET res == pick_step(ValueOptions(SeriesItems), page, line)
          IN  IF res.kind \in {"exit", "raise"}
              THEN Leave(res.kind) /\ UNCHANGED <<page, flow, series>>
              ELSE IF res.kind = "BACK"
              THEN Goto("main_menu") /\ flow' = "none" /\ UNCHANGED <<page, series>>
              ELSE IF res.kind = "value"
              THEN \E answer \in Answers("get") :
                     IF answer = "error"
                     THEN /\ Uncaught
                          /\ series' = res.value
                          /\ UNCHANGED <<page, flow>>
                     ELSE IF SeasonsOf(res.value) = <<>>
                     THEN /\ Goto("series_pick")
                          /\ page' = 0
                          /\ UNCHANGED <<flow, series>>
                     ELSE /\ Goto("season_pick")
                          /\ page' = 0
                          /\ series' = res.value
                          /\ UNCHANGED flow
              ELSE Goto("series_pick") /\ page' = res.page /\ UNCHANGED <<flow, series>>
  /\ UNCHANGED <<cfg, disk, base, api_key, season, items, selected_index, count,
                 out_dir, loop_i, fetches, transfers, me, auth_answers, otherVars>>

SeasonPick ==
  /\ pc = "season_pick"
  /\ \E line \in Lines(pc) :
       /\ Typed(line)
       /\ LET res == pick_step(ValueOptions(SeasonsOf(series)), page, line)
          IN  IF res.kind \in {"exit", "raise"}
              THEN Leave(res.kind) /\ UNCHANGED <<page, series, season, items>>
              ELSE IF res.kind = "BACK"
              THEN SeriesLoop
              ELSE IF res.kind = "value"
              THEN \E answer \in Answers("get") :
                     IF answer = "error"
                     THEN /\ Uncaught
                          /\ season' = res.value
                          /\ UNCHANGED <<page, series, items>>
                     ELSE IF EpisodesOf(series, res.value) = <<>>
                     THEN SeriesLoop
                     ELSE /\ Goto("episode_pick")
                          /\ page' = 0
                          /\ season' = res.value
                          /\ items' = EpisodesOf(series, res.value)
                          /\ UNCHANGED series
              ELSE /\ Goto("season_pick")
                   /\ page' = res.page
                   /\ UNCHANGED <<series, season, items>>
  /\ UNCHANGED <<cfg, disk, base, api_key, flow, selected_index, count, out_dir,
                 loop_i, fetches, transfers, me, auth_answers, otherVars>>

\* what pick returns to its caller, as a Python value: the string "BACK" or
\* the value of the option, here an index
Returned(res) ==
  IF res.kind = "BACK" THEN [t |-> "str", v |-> "BACK"]
  ELSE [t |-> "int", v |-> res.value]

\* a caller that tests the index for truth, which 0 fails
NoSelection_falsy(ret) ==
  \/ ret.t = "none"
  \/ ret.t = "str" /\ ret.v = "BACK"
  \/ ret.t = "int" /\ ret.v = 0

\* selected_index == "BACK" or selected_index is None (handle_series),
\* selected_index in (None, "BACK") (handle_movies)
NoSelection(ret) ==
  \/ ret.t = "none"
  \/ ret.t = "str" /\ ret.v = "BACK"

EpisodePick ==
  /\ pc = "episode_pick"
  /\ \E line \in Lines(pc) :
       /\ Typed(line)
       /\ LET res == pick_step(IndexOptions(items), page, line)
          IN  IF res.kind \in {"exit", "raise"}
              THEN /\ Leave(res.kind)
                   /\ UNCHANGED <<page, series, season, items, selected_index,
                                  fetches, transfers>>
              ELSE IF res.kind \in {"BACK", "value"}
              THEN IF NoSelection(Returned(res))
                   THEN SeriesLoop /\ UNCHANGED <<selected_index, fetches, transfers>>
                   ELSE /\ Preview(Returned(res).v)
                        /\ UNCHANGED <<page, series, season, items>>
              ELSE /\ Goto("episode_pick")
                   /\ page' = res.page
                   /\ UNCHANGED <<series, season, items, selected_index, fetches, transfers>>
  /\ UNCHANGED <<cfg, disk, base, api_key, flow, count, out_dir, loop_i, me, auth_answers, otherVars>>

MoviePick ==
  /\ pc = "movie_pick"
  /\ \E line \in Lines(pc) :
       /\ Typed(line)
       /\ LET res == pick_step(IndexOptions(items), page, line)
          IN  IF res.kind \in {"exit", "raise"}
              THEN /\ Leave(res.kind)
                   /\ UNCHANGED <<page, flow, items, selected_index, fetches, transfers>>
              ELSE IF res.kind \in {"BACK", "value"}
              THEN IF NoSelection(Returned(res))
                   THEN /\ Goto("main_menu")
                        /\ flow' = "none"
                        /\ items' = <<>>
                        /\ UNCHANGED <<page, selected_index, fetches, transfers>>
                   ELSE Preview(Returned(res).v) /\ UNCHANGED <<page, flow, items>>
              ELSE /\ Goto("movie_pick")
                   /\ page' = res.page
                   /\ UNCHANGED <<flow, items, selected_index, fetches, transfers>>
  /\ UNCHANGED <<cfg, disk, base, api_key, series, season, count, out_dir, loop_i,
                 me, auth_answers, otherVars>>

(***************************************************************************)
(* process_download_or_stream, from "Download? (y/N)" on.                  *)
(***************************************************************************)
DownloadPrompt ==
  /\ pc = "download_prompt"
  /\ \E line \in Lines(pc) :
       /\ Typed(line)
       /\ LET dl == Lower(Strip(line))
              target_item == items[selected_index + 1]
          IN  IF dl = <<"y">>
              THEN /\ count' = 1
                   /\ IF /\ Get(target_item, "Type") # JStr("Movie")
                         /\ Len(items) > 1
                         /\ selected_index < Len(items) - 1
                      THEN Goto("count_prompt")
                      ELSE Goto("output_dir_prompt")
              ELSE Goto("press_enter") /\ UNCHANGED count
  /\ UNCHANGED <<cfg, disk, base, api_key, page, flow, series, season, items,
                 selected_index, out_dir, loop_i, fetches, transfers, me, auth_answers, otherVars>>

CountPrompt ==
  /\ pc = "count_prompt"
  /\ \E line \in Lines(pc) :
       /\ Typed(line)
       /\ IF prompt_int_raises(line)
          THEN Uncaught /\ UNCHANGED count
          ELSE count' = prompt_int(line, 1, 1, 9999) /\ Goto("output_dir_prompt")
  /\ UNCHANGED <<cfg, disk, base, api_key, page, flow, series, season, items,
                 selected_index, out_dir, loop_i, fetches, transfers, me, auth_answers, otherVars>>

\* the output directory, then the first pass of the for loop is due
OutputDirPrompt ==
  /\ pc = "output_dir_prompt"
  /\ \E line \in Lines(pc) :
       /\ Typed(line)
       /\ LET default_path == CfgGet(cfg, "download_path", <<>>)
              out_dir_raw == Strip(line)
          IN  IF out_dir_raw # <<>>
              THEN /\ out_dir' = out_dir_raw
                   /\ cfg' = CfgSet(cfg, "download_path", out_dir_raw)
                   /\ disk' = save_config(cfg')
              ELSE /\ out_dir' = IF default_path # <<>> THEN default_path ELSE S.dot
                   /\ UNCHANGED <<cfg, disk>>
  /\ IF selected_index < BatchEnd
     THEN Goto("batch") /\ loop_i' = selected_index
     ELSE Goto("press_enter") /\ UNCHANGED loop_i
  /\ UNCHANGED <<base, api_key, page, flow, series, season, items, selected_index,
                 count, fetches, transfers, me, auth_answers, otherVars>>

\* a with statement that leaves the file open when its body raises
with_exit_leaks(outcome) == IF outcome = "broken" THEN "open" ELSE "closed"

\* with open(output_path, 'wb') as f: leaving the block closes f, whether
\* the body has ended or raised
with_exit(outcome) == "closed"

\* the status of the final response to the transfer's request: requests
\* follows redirects, so a 3xx status is one it does not follow (304, or no
\* Location header)
StatusCodes == {200, 304, 404}

\* what may be at the output path of item i before its transfer: only the
\* first item of a download may find a file there
Destinations(i) == IF i = selected_index THEN {"absent", "old"} ELSE {"absent"}

\* response.raise_for_status() raises HTTPError on a 4xx or 5xx status
raise_for_status(code) == 400 <= code /\ code < 600

\* download_stream and download_direct up to the with statement: how the
\* call stands after the response with status code, when open succeeds or
\* fails (opens), and what is at the destination, where before says what
\* was there.  open(output_path, 'wb') creates the file or truncates it.
Opening(code, opens, before) ==
  IF raise_for_status(code)
  THEN [status |-> "http_error", file |-> "none", dest |-> before]
  ELSE IF ~opens
  THEN [status |-> "open_error", file |-> "none", dest |-> before]
  ELSE [status |-> "open", file |-> "open", dest |-> "empty"]

\* one pass of the for loop up to the opening of the file: get_stream_url,
\* the strategy, requests.get, raise_for_status and open, each of which may
\* raise.  file is the state of the handle on the output file, dest what is
\* at the output path ("absent", the "old" content of a file that was
\* there, "empty", "partial" or the "whole" body).  The size estimate
\* printed for a transcode changes no state.
TransferRequest ==
  /\ pc = "batch"
  /\ LET it == items[loop_i + 1]
         strategy == should_skip_transcode(it, CfgGet(cfg, "VideoBitrate", 4000000))
     IN  \E fetched \in IF NeedsFetch(it) THEN Answers("get") ELSE {"none"},
            code \in StatusCodes, opens \in BOOLEAN, before \in Destinations(loop_i) :
           /\ fetches' = IF fetched = "none" THEN fetches
                         ELSE Append(fetches, Get(it, "Id").v)
           /\ IF fetched = "error" \/ strategy = "raise"
              THEN Uncaught /\ UNCHANGED transfers
              ELSE /\ transfers' =
                        Append(transfers,
                               [i |-> loop_i,
                                how |-> IF strategy = "Direct" THEN "direct"
                                        ELSE "stream",
                                code |-> code,
                                before |-> before,
                                status |-> Opening(code, opens, before).status,
                                file |-> Opening(code, opens, before).file,
                                dest |-> Opening(code, opens, before).dest])
                   /\ IF Opening(code, opens, before).status = "open"
                      THEN Goto("transfer") ELSE Uncaught
  /\ UNCHANGED <<cfg, disk, base, api_key, inp, prev_pc, page, navVars, me,
                 auth_answers, otherVars>>

\* a loop that goes on to the next item while the transfer is still running
TransferBody_not_awaited ==
  /\ pc = "transfer"
  /\ loop_i' = loop_i + 1
  /\ IF loop_i + 1 < BatchEnd THEN Goto("batch") ELSE Goto("press_enter")
  /\ UNCHANGED <<cfg, disk, base, api_key, inp, prev_pc, page, flow, series, season,
                 items, selected_index, count, out_dir, fetches, transfers, me,
                 auth_answers, otherVars>>

\* the body of the with block: the chunks are written; the stream ends or
\* breaks (iter_content or write raises) with none or some of the chunks
\* written ("partial"), and the block is left.  After the last item
\* "Done." and the prompt.
TransferBody ==
  /\ pc = "transfer"
  /\ \E outcome \in {"complete", "broken"} :
       /\ transfers' = [transfers EXCEPT ![Len(transfers)].status = outcome,
                                         ![Len(transfers)].file = with_exit(outcome),
                                         ![Len(transfers)].dest =
                                           IF outcome = "complete" THEN "whole"
                                           ELSE "partial"]
       /\ IF outcome = "broken"
          THEN Uncaught /\ UNCHANGED loop_i
          ELSE /\ loop_i' = loop_i + 1
               /\ IF loop_i + 1 < BatchEnd THEN Goto("batch")
                  ELSE Goto("press_enter")
  /\ UNCHANGED <<cfg, disk, base, api_key, inp, prev_pc, page, flow, series, season,
                 items, selected_index, count, out_dir, fetches, me, auth_answers,
                 otherVars>>

\* "Press Enter to continue...", then back in the caller's loop
PressEnter ==
  /\ pc = "press_enter"
  /\ \E line \in Lines(pc) : Typed(line)
  /\ IF flow = "series"
     THEN SeriesLoop
     ELSE Goto("movie_pick") /\ page' = 0 /\ UNCHANGED <<series, season, items>>
  /\ selected_index' = NoIndex
  /\ count' = 0
  /\ out_dir' = <<>>
  /\ loop_i' = NoIndex
  /\ fetches' = <<>>
  /\ transfers' = <<>>
  /\ UNCHANGED <<cfg, disk, base, api_key, flow, me, auth_answers, otherVars>>

Next ==
  \/ LoadConfig
  \/ UrlPrompt
  \/ PortPrompt
  \/ CredChoice
  \/ UsernamePrompt
  \/ PasswordPrompt
  \/ ApiKeyPrompt
  \/ MainMenu
  \/ SettingsChoice
  \/ VideoCodecPick
  \/ VideoCodecCustom
  \/ AudioCodecPick
  \/ AudioCodecCustom
  \/ VideoBitratePrompt
  \/ AudioBitratePrompt
  \/ MaxAudioChannelsPrompt
  \/ SeriesPick
  \/ SeasonPick
  \/ EpisodePick
  \/ MoviePick
  \/ DownloadPrompt
  \/ CountPrompt
  \/ OutputDirPrompt
  \/ TransferRequest
  \/ TransferBody
  \/ PressEnter

Spec == AppInit /\ [][Next]_vars

(***************************************************************************)
(* Properties of the interactive program, under Spec.                      *)
(***************************************************************************)
Cmd == Lower(Strip(inp))

\* the batch of the current download is over: the loop has ended or the
\* process has
BatchOver == pc \notin {"batch", "transfer"}

Attempted(j) == \E m \in 1..Len(transfers) : transfers[m].i = j

\* C1: when the request of one item's transfer is answered with an HTTP
\* error, every later item of the batch (up to min(len(items),
\* selected_index + count) - 1) has had its transfer attempted by the time
\* the batch is over.
C1_BatchContinuesAfterFailure ==
  BatchOver =>
    \A k \in 1..Len(transfers) :
      transfers[k].status = "http_error" =>
        \A j \in (transfers[k].i + 1)..(BatchEnd - 1) : Attempted(j)

\* C5: a VideoBitrate of 0 is preserved: load_config keeps a stored 0, a
\* transfer started with 0 configured is a direct one, and a 0 in memory
\* changes only at the bitrate prompt of the settings editor, on a number
\* other than 0.
C5_LoadKeepsZero ==
  (/\ pc = "start"
   /\ disk.kind = "text"
   /\ json_loads(disk.text).ok
   /\ json_loads(disk.text).t = "dict"
   /\ "VideoBitrate" \in DOMAIN json_loads(disk.text).v
   /\ json_loads(disk.text).v.VideoBitrate = [t |-> "int", v |-> 0])
    => cfg'.VideoBitrate = 0

C5_DownloadReadsZero ==
  (pc = "batch" /\ pc' = "transfer" /\ cfg.VideoBitrate = 0)
    => transfers'[Len(transfers')].how = "direct"

C5_OnlyANumberReplacesZero ==
  (/\ "VideoBitrate" \in DOMAIN cfg
   /\ cfg.VideoBitrate = 0
   /\ cfg'.VideoBitrate # 0)
    => /\ pc = "video_bitrate_prompt"
       /\ IsDigit(Strip(inp'))
       /\ ParseInt(Strip(inp')) # 0

C5_ZeroBitratePreserved ==
  [][C5_LoadKeepsZero /\ C5_DownloadReadsZero /\ C5_OnlyANumberReplacesZero]_vars

\* C6: b in a picker of the series flow goes back exactly one level: from
\* the episodes to the seasons of the same series, from the seasons to the
\* series, from the series to the main menu.
C6_BackFromEpisodes ==
  (pc = "episode_pick" /\ Lower(Strip(inp')) = <<"b">>)
    => (pc' = "season_pick" /\ series' = series)

C6_BackFromSeasons ==
  (pc = "season_pick" /\ Lower(Strip(inp')) = <<"b">>) => pc' = "series_pick"

C6_BackFromSeries ==
  (pc = "series_pick" /\ Lower(Strip(inp')) = <<"b">>) => pc' = "main_menu"

C6_BackOneLevel ==
  [][C6_BackFromEpisodes /\ C6_BackFromSeasons /\ C6_BackFromSeries]_vars

\* C7: q typed in any picker (series, seasons, episodes, movies, the codec
\* pickers of the settings) ends the process with exit code 0, and nothing
\* of the run follows the exit.
PickerPrompts ==
  {"series_pick", "season_pick", "episode_pick", "movie_pick",
   "video_codec_pick", "audio_codec_pick"}

C7_QuitInPicker ==
  (pc \in PickerPrompts /\ Lower(Strip(inp')) = <<"q">>)
    => (pc' = "exited" /\ exit_code' = 0)

C7_NothingAfterExit == pc = "exited" => pc' = "start"

C7_QuitExitsProcess == [][C7_QuitInPicker /\ C7_NothingAfterExit]_vars

C7_Witness ==
  /\ pc = "exited"
  /\ exit_code = 0
  /\ prev_pc = "audio_codec_pick"
  /\ Cmd = <<"q">>

(***************************************************************************)
(* SpecConfig: save_config and load_config.  Either the program starts and *)
(* loads whatever the file holds, or a Configuration is saved over the     *)
(* file and loaded again.  pc is "config_load", "config_save",             *)
(* "config_reload" or "config_loaded".                                     *)
(***************************************************************************)
\* what jellydown.json may hold
StoredFiles ==
  {[kind |-> "missing"], [kind |-> "unreadable"]}
    \cup
  {[kind |-> "text", text |-> t] :
     t \in {<<>>,
            <<" ", "\n">>,
            <<"{">>,
            <<"{", "}", " ", "x">>,
            <<"{", "\"", "VideoBitrate", "\"", ":", " ", "0", ",", "}">>,
            <<"{", "\"", "VideoBitrate", "\"", ":", " ", "0", "1", "}">>,
            <<"{", "\"", "VideoCodec", "\"", ":", " ", "\"", "\\", "d", "\"", "}">>,
            <<"[", "]">>,
            <<"[", "1", ",", " ", "{", "\"", "a", "\"", ":", " ", "n", "u", "l", "l",
              "}", "]">>,
            <<"3">>,
            <<"-", "1", ".", "5", "e", "3">>,
            <<"\"", "s", "\"">>,
            <<"n", "u", "l", "l">>,
            <<" ", "{", "}", "\n">>,
            <<"{", "\"", "VideoBitrate", "\"", ":", " ", "0", ",", " ",
              "\"", "MaxStreamingBitrate", "\"", ":", " ", "0", "}">>,
            <<"{", "\"", "AudioCodec", "\"", ":", "\"", "m", "p", "3", "\"", ",",
              "\"", "AudioCodec", "\"", ":", "\"", "a", "\\", "\"", "c", "\"", ",",
              "\"", "Extra", "\"", ":", "[", "t", "r", "u", "e", "]", "}">>}}

\* the Configurations saved: the defaults, or no setting at all, with some
\* settings put on top
Configurations ==
  {Update(b, o) :
     b \in {<<>>, defaults},
     o \in {<<>>,
            [server_url |-> S.url, api_key |-> S.token],
            [VideoBitrate |-> 0, MaxStreamingBitrate |-> 0],
            [VideoCodec |-> <<"a", "\"", "b">>,
             download_path |-> <<"C", ":", "\\", "d", " ", "x">>],
            [AudioCodec |-> <<"\\", "\\", "\"">>, MaxAudioChannels |-> 8,
             AudioBitrate |-> 1000000, VideoBitrate |-> 100000000]}}

ConfigInit ==
  /\ pc \in {"config_load", "config_save"}
  /\ exit_code = Running
  /\ cfg \in IF pc = "config_save" THEN Configurations ELSE {<<>>}
  /\ disk \in StoredFiles
  /\ base = <<>>
  /\ api_key = <<>>
  /\ inp = <<>>
  /\ me = "none"
  /\ auth_answers = <<>>
  /\ prev_pc = "idle"
  /\ flow = "none"
  /\ series = JNull
  /\ season = JNull
  /\ items = <<>>
  /\ selected_index = NoIndex
  /\ count = 0
  /\ out_dir = <<>>
  /\ loop_i = NoIndex
  /\ fetches = <<>>
  /\ transfers = <<>>
  /\ StrategyIdle
  /\ PickIdle
  /\ ListIdle
  /\ SanitizeIdle

\* cfg = load_config()
ConfigLoad ==
  /\ pc \in {"config_load", "config_reload"}
  /\ cfg' = load_config(disk)
  /\ pc' = "config_loaded"
  /\ prev_pc' = pc
  /\ UNCHANGED <<exit_code, disk, base, api_key, inp, me, auth_answers, navVars, fetches,
                 transfers, stratVars, pickVars, listVars, sanVars>>

\* save_config(cfg)
ConfigSave ==
  /\ pc = "config_save"
  /\ disk' = save_config(cfg)
  /\ pc' = "config_reload"
  /\ prev_pc' = pc
  /\ UNCHANGED <<exit_code, cfg, base, api_key, inp, me, auth_answers, navVars, fetches,
                 transfers, stratVars, pickVars, listVars, sanVars>>

ConfigNext == ConfigLoad \/ ConfigSave

SpecConfig == ConfigInit /\ [][ConfigNext]_vars

(***************************************************************************)
(* Properties of the configuration store, under SpecConfig.                *)
(***************************************************************************)
\* the file holds a JSON object
HoldsObject(file) ==
  /\ file.kind = "text"
  /\ json_loads(file.text).ok
  /\ json_loads(file.text).t = "dict"

\* the value Python has for a member of the object on disk
OnDisk(file, k) ==
  LET m == json_loads(file.text).v[k]
  IN  IF m.t \in {"str", "int"} THEN m.v ELSE m

\* C11: load_config always returns a configuration: exactly the defaults
\* when the file is missing, unreadable, empty, not valid JSON or JSON that
\* is not an object; when the file holds an object, the defaults and the
\* keys of the object, each key of the object with the value on disk and
\* every other key with its default.
C11_LoadStep ==
  pc \in {"config_load", "config_reload"} =>
    IF HoldsObject(disk)
    THEN /\ DOMAIN cfg' = DOMAIN defaults \cup DOMAIN json_loads(disk.text).v
         /\ \A k \in DOMAIN json_loads(disk.text).v : cfg'[k] = OnDisk(disk, k)
         /\ \A k \in DOMAIN defaults \ DOMAIN json_loads(disk.text).v :
              cfg'[k] = defaults[k]
    ELSE cfg' = defaults

C11_LoadNeverFails == [][C11_LoadStep]_vars

\* the file was not valid JSON and the program has the defaults
C11_Witness ==
  /\ pc = "config_loaded"
  /\ prev_pc = "config_load"
  /\ disk.kind = "text"
  /\ disk.text # <<>>
  /\ ~json_loads(disk.text).ok
  /\ cfg = defaults

\* C12 as stated: whatever Configuration is saved, loading the file again
\* gives a configuration equal to it.
C12_RoundTripAny ==
  [][(pc = "config_reload" /\ disk = save_config(cfg)) => cfg' = cfg]_vars

\* C12: a Configuration that has every key of the defaults (as every
\* configuration load_config returns has) is equal to what load_config
\* returns after save_config has saved it.
C12_RoundTrip ==
  [][(/\ pc = "config_reload"
      /\ disk = save_config(cfg)
      /\ DOMAIN defaults \subseteq DOMAIN cfg) => cfg' = cfg]_vars

\* a Configuration with a quote and a backslash in its strings is back
C12_Witness ==
  /\ pc = "config_loaded"
  /\ prev_pc = "config_reload"
  /\ DOMAIN defaults \subseteq DOMAIN cfg
  /\ "download_path" \in DOMAIN cfg
  /\ cfg.download_path = <<"C", ":", "\\", "d", " ", "x">>
  /\ cfg.VideoCodec = <<"a", "\"", "b">>
  /\ disk = save_config(cfg)

(***************************************************************************)
(* Properties of the interactive program, under Spec (continued).          *)
(***************************************************************************)
\* C13: no run ends with a setting changed in memory and never written:
\* when the process has exited, the file holds the Configuration in memory.
C13_ExitsWithSettingsSaved ==
  pc = "exited" => (disk.kind = "text" /\ load_config(disk) = cfg)

\* C14: with no stored token, a login that fails leads back to the
\* credential choice with nothing stored; the credential loop is left only
\* with a token that is not empty; a login attempt sends exactly one
\* authentication request, whatever the answer; and the program is past the
\* credential loop, where it asks the catalog, only with a token that is
\* not empty.
CredentialPrompts ==
  {"cred_choice", "username_prompt", "password_prompt", "api_key_prompt"}

StartupPrompts == {"start", "url_prompt", "port_prompt"} \cup CredentialPrompts

C14_FailedLogin ==
  (pc = "password_prompt" /\ auth_answers'[Len(auth_answers')] # "json")
    => (pc' = "cred_choice" /\ api_key' = <<>> /\ cfg' = cfg /\ disk' = disk)

C14_LoopLeftWithToken ==
  (pc \in CredentialPrompts /\ pc' \notin CredentialPrompts) => api_key' # <<>>

C14_OneRequest == pc = "password_prompt" => Len(auth_answers') = 1

C14_TokenForCatalog == pc' \notin StartupPrompts => api_key' # <<>>

C14_CredentialLoop ==
  [][/\ C14_FailedLogin
     /\ C14_LoopLeftWithToken
     /\ C14_OneRequest
     /\ C14_TokenForCatalog]_vars

\* the server has refused a login with an HTTP error: one request was
\* sent, and the program asks again how to sign in, with no token
C14_Witness ==
  /\ pc = "cred_choice"
  /\ prev_pc = "password_prompt"
  /\ auth_answers = <<"http_error">>
  /\ api_key = <<>>
  /\ "api_key" \notin DOMAIN cfg

\* C15: q at the main menu or in a picker ends the process with exit code
\* 0; when /Users/Me answers 401, fails otherwise or answers without an Id,
\* the process ends with exit code 1 in that very step, and the main menu
\* and everything behind it is shown only after /Users/Me has given an Id.
Ended == pc \in {"exited", "crashed"}

C15_NormalQuit ==
  (pc \in PickerPrompts \cup {"main_menu"} /\ Lower(Strip(inp')) = <<"q">>)
    => (pc' = "exited" /\ exit_code' = 0)

C15_StartupFailure ==
  (me = "none" /\ me' \in {"401", "error", "no_id"})
    => (pc' \in {"exited", "crashed"} /\ exit_code' = 1)

C15_MenuOnlyWithIdentity ==
  (pc' \notin StartupPrompts /\ pc' \notin {"exited", "crashed"}) => me' = "ok"

C15_ExitCodes ==
  [][/\ C15_NormalQuit
     /\ C15_StartupFailure
     /\ C15_MenuOnlyWithIdentity
     /\ (Ended => pc' = "start")]_vars

\* /Users/Me has answered 401 to the token typed and the process has ended
\* with exit code 1
C15_Witness ==
  /\ pc = "exited"
  /\ exit_code = 1
  /\ me = "401"
  /\ prev_pc = "api_key_prompt"

\* C16: the handle on the output file is open only while the body of the
\* transfer runs: leaving the body, by its end or by an exception, closes
\* it, and whenever no transfer is running (the routine has returned or
\* raised) no transfer of the batch holds an open handle.
C16_ClosedOnLeaving ==
  pc = "transfer" => transfers'[Len(transfers')].file = "closed"

C16_NoneOpenOutside ==
  pc' # "transfer" => \A k \in 1..Len(transfers') : transfers'[k].file # "open"

C16_HandleClosed == [][C16_ClosedOnLeaving /\ C16_NoneOpenOutside]_vars

\* the stream of the second item of a batch broke while its file was
\* written: the exception has ended the process and the handle is closed
C16_Witness ==
  /\ pc = "crashed"
  /\ Len(transfers) = 2
  /\ transfers[2].status = "broken"
  /\ transfers[2].file = "closed"
  /\ transfers[1].file = "closed"

\* C17: in one run of the download flow (the URL preview of the selected
\* item, then the batch loop), GET /Items/{id} has been sent exactly once
\* for every item handled whose listing has no media source id, and never
\* for an item whose listing has one.
FetchesOf(j) ==
  Cardinality({m \in 1..Len(fetches) : fetches[m] = Get(items[j + 1], "Id").v})

C17_FetchedOnce ==
  selected_index # NoIndex =>
    \A j \in 0..(Len(items) - 1) :
      /\ (j = selected_index \/ Attempted(j)) =>
           FetchesOf(j) = IF NeedsFetch(items[j + 1]) THEN 1 ELSE 0
      /\ ~NeedsFetch(items[j + 1]) => FetchesOf(j) = 0

(***************************************************************************)
(* SpecSanitize: one call of sanitize_filename on a name of at most        *)
(* MaxNameLen characters: a letter, the dot, the blank, the tab, the       *)
(* no-break space, DEL, the colon and NUL.                                 *)
(***************************************************************************)
MaxNameLen == 4

SanitizeInit ==
  /\ sf_arg \in UNION {[1..n -> {"a", ".", " ", "\t", "NBSP", "DEL", ":", "NUL"}] :
                         n \in 0..MaxNameLen}
  /\ sf_state = "called"
  /\ sf_result = <<>>
  /\ StrategyIdle
  /\ PickIdle
  /\ ListIdle
  /\ AppIdle

SanitizeReturn ==
  /\ sf_state = "called"
  /\ sf_result' = sanitize_filename(sf_arg)
  /\ sf_state' = "returned"
  /\ UNCHANGED <<sf_arg, stratVars, pickVars, listVars, appVars>>

SpecSanitize == SanitizeInit /\ [][SanitizeReturn]_vars

(***************************************************************************)
(* Properties of sanitize_filename, under SpecSanitize.                    *)
(***************************************************************************)
C18_Whitespace == {" ", "\t", "\n", "\r", "\f", "VT", "NBSP", "NEL"}

C18_Properties ==
  /\ sanitize_filename(sf_result) = sf_result
  /\ \A n \in 1..Len(sf_result) :
       /\ sf_result[n] \notin {"<", ">", ":", "\"", "/", "\\", "|", "?", "*"}
       /\ sf_result[n] \notin {"NUL", "\t", "\n", "\r", "\f", "VT", "ESC", "US"}
  /\ \A n \in 1..(Len(sf_result) - 1) :
       ~(sf_result[n] \in C18_Whitespace /\ sf_result[n + 1] \in C18_Whitespace)
  /\ sf_result # <<>> => sf_result[Len(sf_result)] \notin {" ", "."}

\* C18 as stated: the result of sanitize_filename is left as it is by
\* sanitize_filename, has none of the characters <>:"/\|?*, no ASCII control
\* character (DEL among them), no two whitespace characters in a row, and
\* does not end in a blank or a dot.
C18_NoControlCharacter ==
  sf_state = "returned" =>
    /\ C18_Properties
    /\ \A n \in 1..Len(sf_result) : sf_result[n] # "DEL"

\* C18: the result of sanitize_filename is left as it is by
\* sanitize_filename, has none of the characters <>:"/\|?*, no character
\* from \x00 to \x1f, no two whitespace characters in a row, and does not
\* end in a blank or a dot.
C18_Sanitized == sf_state = "returned" => C18_Properties

\* a name with a tab, a colon and a dot at its end
C18_Witness ==
  /\ sf_state = "returned"
  /\ sf_arg = <<"a", "\t", ":", ".">>
  /\ sf_result = <<"a">>

\* C19: the transfers of a batch run one after the other: only the last
\* transfer started can be in progress, and none is once the batch is over;
\* a transfer starts for the item after the one before, whose transfer has
\* completed or failed by then; every item has at most one transfer, direct
\* or stream as the strategy says for it, which ends complete or failed.
InProgress(k) == transfers[k].status = "open"

C19_OneAtATime ==
  /\ \A k \in 1..(Len(transfers) - 1) : ~InProgress(k)
  /\ (transfers # <<>> /\ InProgress(Len(transfers))) <=> pc = "transfer"

C19_InOrder ==
  \A k \in 2..Len(transfers) : transfers[k].i = transfers[k - 1].i + 1

C19_OneTransport ==
  \A k \in 1..Len(transfers) :
    /\ \A m \in 1..Len(transfers) : transfers[m].i = transfers[k].i => m = k
    /\ transfers[k].how =
         IF should_skip_transcode(items[transfers[k].i + 1],
                                  CfgGet(cfg, "VideoBitrate", 4000000)) = "Direct"
         THEN "direct" ELSE "stream"
    /\ transfers[k].status \in {"open", "complete", "broken", "http_error", "open_error"}

\* the transfer of every item before the last one started has completed
C19_StartsAfterEnd ==
  \A k \in 1..(Len(transfers) - 1) : transfers[k].status = "complete"

C19_Sequential ==
  /\ C19_OneAtATime
  /\ C19_InOrder
  /\ C19_OneTransport
  /\ C19_StartsAfterEnd

\* a batch of two episodes is over: the first was transferred directly,
\* then the second as a stream, both to the end
C19_Witness ==
  /\ pc = "press_enter"
  /\ Len(transfers) = 2
  /\ transfers[1].i = 0
  /\ transfers[1].how = "direct"
  /\ transfers[1].status = "complete"
  /\ transfers[2].i = 1
  /\ transfers[2].how = "stream"
  /\ transfers[2].status = "complete"


(***************************************************************************)
(* Properties of pick, under SpecPick (continued).                         *)
(***************************************************************************)
\* the line is a number within 1..len(options), in decimal digits
SelectsOption(c) ==
  /\ c # <<>>
  /\ \A n \in 1..Len(c) : c[n] \in DigitChars
  /\ 1 <= ParseInt(c)
  /\ ParseInt(c) <= Len(pk_options)

\* C20: a line that, stripped and in lower case, is neither q, b, n, p nor a
\* number within 1..len(options) is rejected: pick does not return, the page
\* is unchanged and pick is at its prompt again.
C20_OtherInputRejected ==
  [][(pk_state = "prompt" /\ cmds' # cmds) =>
       LET c == Lower(Strip(cmds'[Len(cmds')]))
       IN  (c \notin {<<"q">>, <<"b">>, <<"n">>, <<"p">>} /\ ~SelectsOption(c))
             => /\ pk_state' = "prompt"
                /\ page' = page
                /\ pk_result' = pk_result]_vars


(***************************************************************************)
(* Properties of the interactive program, under Spec (continued).          *)
(***************************************************************************)
\* the numeric fields of the settings menu
NumericFields ==
  {[at |-> "video_bitrate_prompt", key |-> "VideoBitrate", default |-> 4000000,
    min_value |-> 0, max_value |-> 100000000],
   [at |-> "audio_bitrate_prompt", key |-> "AudioBitrate", default |-> 128000,
    min_value |-> 1, max_value |-> 1000000],
   [at |-> "channels_prompt", key |-> "MaxAudioChannels", default |-> 2,
    min_value |-> 1, max_value |-> 8]}

\* the line is a number written in decimal digits
Numeric(raw) == raw # <<>> /\ \A n \in 1..Len(raw) : raw[n] \in DigitChars

Clamped(v, lo, hi) == IF v < lo THEN lo ELSE IF v > hi THEN hi ELSE v

\* C21: whatever is typed at the prompt of a numeric setting, the menu goes
\* on (the entry is never fatal) and the field holds a value within its
\* range: the number typed, clamped to the field's minimum and maximum, or
\* the field's default for a blank or non-numeric line.
C21_NumericEntry ==
  [][\A f \in NumericFields :
       pc = f.at =>
         LET raw == Strip(inp')
         IN  /\ pc' = "settings"
             /\ cfg'[f.key] = IF Numeric(raw)
                               THEN Clamped(ParseInt(raw), f.min_value, f.max_value)
                               ELSE f.default
             /\ f.min_value <= cfg'[f.key]
             /\ cfg'[f.key] <= f.max_value]_vars


\* the download the user confirmed is over: its loop has ended or an
\* exception has ended the process in it
DownloadOver == pc \in {"press_enter", "crashed"} /\ prev_pc = "output_dir_prompt"

\* the indices of the transfers attempted, in the order of the attempts
AttemptedIndices == [m \in 1..Len(transfers) |-> transfers[m].i]

C22_ExactlyTheRange ==
  DownloadOver =>
    AttemptedIndices = [m \in 1..(BatchEnd - selected_index) |-> selected_index + m - 1]

C22_CountAsked ==
  /\ pc' = "count_prompt" =>
        /\ Get(items[selected_index + 1], "Type") # JStr("Movie")
        /\ selected_index # Len(items) - 1
  /\ (pc = "download_prompt" /\ pc' = "output_dir_prompt") => count' = 1

\* C22: once a confirmed download is over, the transfers attempted are
\* those of the items selected_index .. min(len(items), selected_index +
\* count) - 1, in ascending order and each once; the count is asked only for
\* an item that is not a Movie and not the last of the list, and otherwise
\* the count is 1.
C22_BatchRange == []C22_ExactlyTheRange /\ [][C22_CountAsked]_vars


\* the status is a 2xx one
Success(code) == 200 <= code /\ code < 300

C23_ErrorLeavesDestination ==
  \A k \in 1..Len(transfers) :
    ~Success(transfers[k].code) =>
      /\ transfers[k].status = "http_error"
      /\ transfers[k].file = "none"
      /\ transfers[k].dest = transfers[k].before

C23_PartialAfterBodyStarted ==
  \A k \in 1..Len(transfers) :
    transfers[k].dest = "partial" =>
      (Success(transfers[k].code) /\ transfers[k].status = "broken")

\* C23: a transfer whose request is answered with a status that is not 2xx
\* has raised without opening the destination, which is as it was before
\* (absent, or the file that was there with its content); the destination
\* is a partial file only after a failure in the body of the transfer.
C23_DestinationUntouched == C23_ErrorLeavesDestination /\ C23_PartialAfterBodyStarted


(***************************************************************************)
(* SpecRuns: the startup of main, run after run on the same config file.   *)
(* A run that has ended is followed by another one, which starts with the  *)
(* file as the last one left it; me keeps the answer to the last GET       *)
(* /Users/Me, also that of an earlier run, and prev_pc how that run ended. *)
(***************************************************************************)
Restart ==
  /\ pc \in {"exited", "crashed"}
  /\ pc' = "start"
  /\ prev_pc' = pc
  /\ exit_code' = Running
  /\ cfg' = <<>>
  /\ base' = <<>>
  /\ api_key' = <<>>
  /\ inp' = <<>>
  /\ auth_answers' = <<>>
  /\ UNCHANGED <<disk, me, page, navVars, fetches, transfers, otherVars>>

RunsNext ==
  \/ LoadConfig
  \/ UrlPrompt
  \/ PortPrompt
  \/ CredChoice
  \/ UsernamePrompt
  \/ PasswordPrompt
  \/ ApiKeyPrompt
  \/ Restart

SpecRuns == AppInit /\ [][RunsNext]_vars

(***************************************************************************)
(* Properties of the startup, under SpecRuns.                              *)
(***************************************************************************)
\* the config file holds a token
StoresToken(file) ==
  /\ HoldsObject(file)
  /\ "api_key" \in DOMAIN json_loads(file.text).v
  /\ OnDisk(file, "api_key") # <<>>

\* the token has been checked against /Users/Me in this run
Checked == pc \in {"main_menu", "exited", "crashed"} /\ me # "none"

C24_StoredBeforeChecked ==
  Checked =>
    /\ StoresToken(disk)
    /\ OnDisk(disk, "api_key") = api_key
    /\ OnDisk(disk, "server_url") = base

C24_TokenKept ==
  StoresToken(disk) =>
    (StoresToken(disk') /\ OnDisk(disk', "api_key") = OnDisk(disk, "api_key"))

C24_NoPromptAfterRejection ==
  me = "401" =>
    /\ StoresToken(disk)
    /\ pc \notin CredentialPrompts \cup {"url_prompt", "main_menu"}
    /\ pc = "exited" => exit_code = 1

C24_SameExit ==
  (pc = "start" /\ me = "401" /\ me' = "401") =>
    (pc' = "exited" /\ exit_code' = 1 /\ disk' = disk)

IndexPickers == {"episode_pick", "movie_pick"}

C25_FirstEntrySelects ==
  (pc \in IndexPickers /\ Lower(Strip(inp')) = <<"1">>)
    => /\ pc' = "download_prompt"
       /\ selected_index' = 0
       /\ items' = items

C25_LeavesOnlyOnBack ==
  (pc \in IndexPickers /\ pc' \notin {pc, "download_prompt", "exited", "crashed"})
    => /\ Lower(Strip(inp')) = <<"b">>
       /\ selected_index' = NoIndex
       /\ transfers' = <<>>

\* C25: in the episode and the movie picker entry number 1 (the index 0)
\* always leads to the download prompt for items[0]; the caller leaves the
\* picker for another place than the download prompt, with nothing
\* selected and nothing transferred, only on b (the picker is never called
\* on an empty list there, so it never returns None).
C25_IndexZeroSelects == [][C25_FirstEntrySelects /\ C25_LeavesOnlyOnBack]_vars

\* the first movie has been selected by its number
C25_Witness ==
  /\ pc = "download_prompt"
  /\ prev_pc = "movie_pick"
  /\ inp = <<"1">>
  /\ selected_index = 0
  /\ Get(items[selected_index + 1], "Id") = JStr("mv1")

====
